---- MODULE Spec2Model ----
(***************************************************************************)
(* Model of movie_recommender.py: the load / validate / canonicalize /      *)
(* aggregate pipeline behind load_all_with_prompt.                          *)
(*                                                                          *)
(* Representation.  A string is a tuple of one-character strings.  A line   *)
(* of a file is the tuple of its fields, i.e. the value of line.split("|")  *)
(* (split is a bijection between strings and non-empty tuples of "|"-free   *)
(* strings).  A path is the record of what is found there: whether it is a  *)
(* file, and the tuple of its lines; NoFile is a path that is not a file.   *)
(* A rating is an integer number of tenths (45 is 4.5); the rating fields   *)
(* of the enumerated files carry at most one fractional digit.              *)
(***************************************************************************)
EXTENDS Integers, Sequences, FiniteSets, TLC

(***************************************************************************)
(* Bounds of the model.                                                     *)
(***************************************************************************)
\* longest file (in lines) entered at a prompt of the interactive session
MaxSessionLines == 2
\* longest movies file (in lines) given to load_movies_file
MaxMovieLines == 3
\* longest ratings file (in lines) given to load_ratings_file
MaxRatingLines == 3
\* the most lines of a ratings file the statistics are taken of
MaxStatLines == 3

(***************************************************************************)
(* Characters and the str methods the program uses.                         *)
(***************************************************************************)
Uppers == <<"A", "B", "C", "D", "E", "F", "G", "H", "I", "J", "K", "L", "M",
            "N", "O", "P", "Q", "R", "S", "T", "U", "V", "W", "X", "Y", "Z">>
Lowers == <<"a", "b", "c", "d", "e", "f", "g", "h", "i", "j", "k", "l", "m",
            "n", "o", "p", "q", "r", "s", "t", "u", "v", "w", "x", "y", "z">>

\* str.lower() on one character
LowerChar(c) ==
    IF \E k \in 1..Len(Uppers) : Uppers[k] = c
    THEN Lowers[CHOOSE k \in 1..Len(Uppers) : Uppers[k] = c]
    ELSE c

\* str.lower()
RECURSIVE Lower(_)
Lower(s) ==
    IF s = <<>> THEN <<>> ELSE <<LowerChar(Head(s))>> \o Lower(Tail(s))

\* str.isspace() on one character
IsSpace(c) == c \in {" ", "\t"}

IsDigit(c) == c \in {"0", "1", "2", "3", "4", "5", "6", "7", "8", "9"}

DigitVal(c) ==
    CASE c = "0" -> 0 [] c = "1" -> 1 [] c = "2" -> 2 [] c = "3" -> 3
      [] c = "4" -> 4 [] c = "5" -> 5 [] c = "6" -> 6 [] c = "7" -> 7
      [] c = "8" -> 8 [] c = "9" -> 9

DigitChar(d) ==
    CASE d = 0 -> "0" [] d = 1 -> "1" [] d = 2 -> "2" [] d = 3 -> "3"
      [] d = 4 -> "4" [] d = 5 -> "5" [] d = 6 -> "6" [] d = 7 -> "7"
      [] d = 8 -> "8" [] d = 9 -> "9"

\* index of the first non-space character at or after p (Len(s)+1 if none)
SkipSpaces(s, p) ==
    IF \A q \in p..Len(s) : IsSpace(s[q]) THEN Len(s) + 1
    ELSE CHOOSE q \in p..Len(s) :
             ~IsSpace(s[q]) /\ \A r \in p..(q - 1) : IsSpace(s[r])

\* index of the last non-space character (0 if none)
LastNonSpace(s) ==
    IF \A q \in 1..Len(s) : IsSpace(s[q]) THEN 0
    ELSE CHOOSE q \in 1..Len(s) :
             ~IsSpace(s[q]) /\ \A r \in (q + 1)..Len(s) : IsSpace(s[r])

\* str.strip()
Strip(s) == SubSeq(s, SkipSpaces(s, 1), LastNonSpace(s))

\* " ".join(s.split()): runs of whitespace become one space, ends trimmed
RECURSIVE CollapseFrom(_, _)
CollapseFrom(s, p) ==
    IF p > Len(s) THEN <<>>
    ELSE IF ~IsSpace(s[p]) THEN <<s[p]>> \o CollapseFrom(s, p + 1)
    ELSE IF SkipSpaces(s, p) > Len(s) THEN <<>>
    ELSE <<" ">> \o CollapseFrom(s, SkipSpaces(s, p))

JoinSplit(s) == CollapseFrom(s, SkipSpaces(s, 1))

\* value of a tuple of digits read as a decimal number
RECURSIVE DigitsValue(_)
DigitsValue(ds) ==
    IF ds = <<>> THEN 0
    ELSE 10 * DigitsValue(SubSeq(ds, 1, Len(ds) - 1)) + DigitVal(ds[Len(ds)])

AllDigits(s) == \A k \in 1..Len(s) : IsDigit(s[k])

\* str(n) for n >= 0
RECURSIVE IntToStr(_)
IntToStr(n) ==
    IF n < 10 THEN <<DigitChar(n)>>
    ELSE IntToStr(n \div 10) \o <<DigitChar(n % 10)>>

(***************************************************************************)
(* Normalisation helpers of the program.                                    *)
(***************************************************************************)
\* _norm_genre: g.strip().lower()
_norm_genre(g) == Lower(Strip(g))

\* _case_insensitive_equal_same_length
_case_insensitive_equal_same_length(a, b) ==
    Len(a) = Len(b) /\ Lower(a) = Lower(b)

(***************************************************************************)
(* _YEAR_RE = ^(?P<title>.+?)\s*\(\s*(?P<year>\d{4})\s*\)\s*$                *)
(***************************************************************************)
\* \s*\)\s*$ matches s from position c on
YearCloses(s, c) == c <= Len(s) /\ s[c] = ")" /\ SkipSpaces(s, c + 1) = Len(s) + 1

\* \d{4}\s*\)\s*$ matches s from position b on
YearDigitsAt(s, b) ==
    /\ b + 3 <= Len(s)
    /\ AllDigits(SubSeq(s, b, b + 3))
    /\ YearCloses(s, SkipSpaces(s, b + 4))

\* \(\s*\d{4}\s*\)\s*$ matches s from position a on
YearOpensAt(s, a) ==
    a <= Len(s) /\ s[a] = "(" /\ YearDigitsAt(s, SkipSpaces(s, a + 1))

\* \s*\(\s*(?P<year>\d{4})\s*\)\s*$ matches s from position p on
YearTailAt(s, p) == YearOpensAt(s, SkipSpaces(s, p))

\* lengths of the title for which the rest of the name matches
TitleLengths(s) == {k \in 1..Len(s) : YearTailAt(s, k + 1)}

\* _YEAR_RE.match(movie_name) is not None
YearReMatches(s) == TitleLengths(s) # {}

\* the least element of a non-empty set of integers
Least(S) == CHOOSE k \in S : \A j \in S : k <= j

\* the lazy group (?P<title>.+?) takes the shortest title that matches
TitleLen(s) == Least(TitleLengths(s))

\* the groups of the match whose title has length k
MatchGroups(s, k) ==
    [title |-> SubSeq(s, 1, k),
     year  |-> SubSeq(s, SkipSpaces(s, SkipSpaces(s, k + 1) + 1),
                      SkipSpaces(s, SkipSpaces(s, k + 1) + 1) + 3)]

\* _extract_title_year, for a name that matches: (title, year)
TitleYearOf(g) == [title |-> JoinSplit(g.title), year |-> DigitsValue(g.year)]

_extract_title_year(s) == TitleYearOf(MatchGroups(s, TitleLen(s)))

\* faulty variant: the title keeps its case in the concept key
ConceptKeyOfCased(ty) == ty.title \o <<" ", "(">> \o IntToStr(ty.year) \o <<")">>

\* f"{title.lower()} ({year})"
ConceptKeyOf(ty) == Lower(ty.title) \o <<" ", "(">> \o IntToStr(ty.year) \o <<")">>

\* _concept_key, for a name that matches
_concept_key(s) == ConceptKeyOf(_extract_title_year(s))

(***************************************************************************)
(* int() and float() on a field.                                            *)
(***************************************************************************)
IsSign(c) == c \in {"+", "-"}

\* a stripped literal without its sign
Unsigned(t) == IF t # <<>> /\ IsSign(t[1]) THEN Tail(t) ELSE t

IsNegative(t) == t # <<>> /\ t[1] = "-"

IntLiteral(t) == Unsigned(t) # <<>> /\ AllDigits(Unsigned(t))

\* int(s) does not raise ValueError: optional blanks, optional sign, digits
IntParses(s) == IntLiteral(Strip(s))

IntLiteralValue(t) ==
    IF IsNegative(t) THEN 0 - DigitsValue(Unsigned(t)) ELSE DigitsValue(Unsigned(t))

\* int(s), for a field that parses
IntValue(s) == IntLiteralValue(Strip(s))

\* the places of the decimal point
PointAt(d) == {k \in 1..Len(d) : d[k] = "."}

\* digits, a point, digits; one of the two parts may be missing
PointedDecimal(d, k) ==
    /\ AllDigits(SubSeq(d, 1, k - 1))
    /\ AllDigits(SubSeq(d, k + 1, Len(d)))
    /\ Len(d) > 1

DecimalParses(d) ==
    \/ d # <<>> /\ AllDigits(d)
    \/ Cardinality(PointAt(d)) = 1 /\ PointedDecimal(d, Least(PointAt(d)))

\* value in tenths of a literal with its point at k
PointedTenths(d, k) ==
    10 * DigitsValue(SubSeq(d, 1, k - 1))
        + (IF k = Len(d) THEN 0 ELSE DigitVal(d[k + 1]))

\* value of a decimal literal in tenths
DecimalTenths(d) ==
    IF PointAt(d) = {} THEN 10 * DigitsValue(d)
    ELSE PointedTenths(d, Least(PointAt(d)))

NanWords == {<<"n", "a", "n">>}
InfWords == {<<"i", "n", "f">>, <<"i", "n", "f", "i", "n", "i", "t", "y">>}

FloatLiteral(d) ==
    Lower(d) \in NanWords \/ Lower(d) \in InfWords \/ DecimalParses(d)

\* float(s) does not raise ValueError
FloatParses(s) == FloatLiteral(Unsigned(Strip(s)))

FloatLiteralValue(neg, d) ==
    IF Lower(d) \in NanWords THEN [cls |-> "nan", tenths |-> 0]
    ELSE IF Lower(d) \in InfWords
         THEN [cls |-> IF neg THEN "-inf" ELSE "inf", tenths |-> 0]
    ELSE [cls |-> "num",
          tenths |-> IF neg THEN 0 - DecimalTenths(d) ELSE DecimalTenths(d)]

\* float(s), for a field that parses: its class and, when finite, its tenths
FloatValue(s) == FloatLiteralValue(IsNegative(Strip(s)), Unsigned(Strip(s)))

\* faulty variant: every float counts as finite
IsFiniteAlways(x) == TRUE

\* math.isfinite
IsFinite(x) == x.cls = "num"

\* faulty variant: the bounds themselves are out of range
RatingInRangeOpen(x) == x.cls = "num" /\ 0 < x.tenths /\ x.tenths < 50

\* 0.0 <= rating <= 5.0 (false for NaN and for the infinities)
RatingInRange(x) == x.cls = "num" /\ 0 <= x.tenths /\ x.tenths <= 50

(***************************************************************************)
(* LoadError: the message (without its file and line prefix) and the line   *)
(* number the message carries (0 when it carries none).                     *)
(***************************************************************************)
NoError == [msg |-> "none", line |-> 0]

LoadError(m, n) == [msg |-> m, line |-> n]

(***************************************************************************)
(* Movies file.                                                             *)
(***************************************************************************)
\* the lines a load keeps: [ln for ln in ... if ln.strip()]; a line with a
\* "|" in it is never blank
IsBlankLine(ln) == Len(ln) = 1 /\ Strip(ln[1]) = <<>>

NonBlankLines(file) == SelectSeq(file, LAMBDA ln : ~IsBlankLine(ln))

\* _parse_movies_line: (genre, movie_id, movie_name), or the error raised
_parse_movies_line(parts) ==
    LET bad(m) == [err |-> m, genre |-> <<>>, movie_id |-> 0, movie_name |-> <<>>]
    IN  IF Len(parts) # 3 THEN bad("expected 3 fields")
        ELSE IF Strip(parts[1]) = <<>> \/ Strip(parts[2]) = <<>>
                    \/ Strip(parts[3]) = <<>>
             THEN bad("empty field(s)")
        ELSE IF ~IntParses(parts[2]) THEN bad("movie_id is not an integer")
        ELSE [err |-> "none", genre |-> Strip(parts[1]),
              movie_id |-> IntValue(parts[2]), movie_name |-> Strip(parts[3])]

\* the keys of MOVIES_BY_NAME
NameKeys(by_name) == {by_name[k].name : k \in 1..Len(by_name)}

\* MOVIES_BY_NAME[name]
RecordOf(by_name, name) ==
    by_name[CHOOSE k \in 1..Len(by_name) : by_name[k].name = name]

\* the places of the keys of MOVIES_BY_NAME equivalent to a name
EquivalentAt(by_name, a_name) ==
    {k \in 1..Len(by_name) :
        _case_insensitive_equal_same_length(by_name[k].name, a_name)}

\* _get_canonical_movie_name: the first key equivalent to new_name, else
\* new_name itself
_get_canonical_movie_name(by_name, new_name) ==
    IF EquivalentAt(by_name, new_name) = {} THEN new_name
    ELSE by_name[Least(EquivalentAt(by_name, new_name))].name

\* faulty variant: the reuse of an id for another concept goes unnoticed
IdReusedNever(by_id, movie_id, ck) == FALSE

\* lines 263-265: movie_id is bound to a record of another concept
IdReused(by_id, movie_id, ck) ==
    movie_id \in DOMAIN by_id /\ _concept_key(by_id[movie_id].name) # ck

\* lines 255-256: the concept was seen with a different id
ConceptConflict(c2id, movie_id, ck) ==
    ck \in DOMAIN c2id /\ c2id[ck] # movie_id

\* dict.setdefault(k, v)
SetDefault(d, k, v) == IF k \in DOMAIN d THEN d ELSE (k :> v) @@ d

\* the record of lines 275-280
NewRecord(p, canonical_name) ==
    [movie_id |-> p.movie_id, name |-> canonical_name,
     genre_original |-> p.genre, genre_norm |-> _norm_genre(p.genre)]

\* lines 275-281
InsertRecord(cat, rec) ==
    [cat EXCEPT !.MOVIES_BY_NAME = Append(@, rec),
                !.MOVIES_BY_ID = (rec.movie_id :> rec) @@ @]

\* faulty variant: a later equivalent row replaces the record of the first
MergeRowOverwrite(cat, p, canonical_name) ==
    IF canonical_name \notin NameKeys(cat.MOVIES_BY_NAME)
    THEN [err |-> "none", cat |-> InsertRecord(cat, NewRecord(p, canonical_name))]
    ELSE [err |-> "none",
          cat |-> [cat EXCEPT
                     !.MOVIES_BY_NAME =
                         [k \in 1..Len(@) |->
                             IF @[k].name = canonical_name
                             THEN NewRecord(p, canonical_name) ELSE @[k]],
                     !.MOVIES_BY_ID =
                         (p.movie_id :> NewRecord(p, canonical_name)) @@ @]]

\* lines 273-289: insert the record, or keep the first one
MergeRow(cat, p, canonical_name) ==
    IF canonical_name \notin NameKeys(cat.MOVIES_BY_NAME)
    THEN [err |-> "none", cat |-> InsertRecord(cat, NewRecord(p, canonical_name))]
    ELSE IF RecordOf(cat.MOVIES_BY_NAME, canonical_name).movie_id # p.movie_id
         THEN [err |-> "same movie name (case-insensitive) with different IDs",
               cat |-> cat]
         ELSE [err |-> "none", cat |-> cat]

\* dict.get(k, v)
Get(d, k, v) == IF k \in DOMAIN d THEN d[k] ELSE v

\* lines 291-294: the genre maps
TrackGenreKey(cat, norm_g, genre_original, canonical_name) ==
    [cat EXCEPT
        !.GENRES = (norm_g :> (Get(@, norm_g, {}) \cup {canonical_name})) @@ @,
        !.GENRE_ORIGINAL_CASE = SetDefault(@, norm_g, genre_original)]

TrackGenre(cat, genre_original, canonical_name) ==
    TrackGenreKey(cat, _norm_genre(genre_original), genre_original, canonical_name)

\* what one iteration of a loop leaves: the error raised ("none" if none),
\* the catalog and the local concept_to_id
MoviesOut(m, c, d) == [err |-> m, cat |-> c, concept_to_id |-> d]

\* lines 291-294, after the merge m of lines 273-289
MoviesRowTracked(cat, c2, p, canonical_name, m) ==
    IF m.err # "none" THEN MoviesOut(m.err, cat, c2)
    ELSE MoviesOut("none", TrackGenre(m.cat, p.genre, canonical_name), c2)

\* lines 270-294, with the canonical name of the row
MoviesRowMerged(cat, c2, p, canonical_name) ==
    MoviesRowTracked(cat, c2, p, canonical_name, MergeRow(cat, p, canonical_name))

\* lines 254-294, with the concept key ck of the row
MoviesRowKeyed(cat, c2id, p, ck) ==
    IF ConceptConflict(c2id, p.movie_id, ck)
    THEN MoviesOut("same title+year concept appears with different IDs", cat, c2id)
    ELSE IF IdReused(cat.MOVIES_BY_ID, p.movie_id, ck)
    THEN MoviesOut("movie_id reused for a different movie", cat,
                   SetDefault(c2id, ck, p.movie_id))
    ELSE MoviesRowMerged(cat, SetDefault(c2id, ck, p.movie_id), p,
                         _get_canonical_movie_name(cat.MOVIES_BY_NAME, p.movie_name))

\* lines 247-294, with the parsed row p
MoviesRowParsed(cat, c2id, p) ==
    IF p.err # "none" THEN MoviesOut(p.err, cat, c2id)
    ELSE IF p.movie_id < 0 THEN MoviesOut("movie_id cannot be negative", cat, c2id)
    ELSE IF ~YearReMatches(p.movie_name)
    THEN MoviesOut("movie_name must end with (YYYY)", cat, c2id)
    ELSE MoviesRowKeyed(cat, c2id, p, _concept_key(p.movie_name))

\* one iteration of the loop of load_movies_file (lines 244-294) on the
\* catalog cat and the local concept_to_id
load_movies_row(cat, c2id, raw) ==
    MoviesRowParsed(cat, c2id, _parse_movies_line(raw))

(***************************************************************************)
(* Ratings file.                                                            *)
(***************************************************************************)
\* lines 209-219, on the stripped fields
ParseRatingFields(movie_name, rating_s, user_id_s) ==
    LET bad(m) == [err |-> m, movie_name |-> <<>>,
                   rating |-> [cls |-> "num", tenths |-> 0], user_id |-> 0]
    IN  IF movie_name = <<>> \/ rating_s = <<>> \/ user_id_s = <<>>
        THEN bad("empty field(s)")
        ELSE IF ~FloatParses(rating_s) THEN bad("rating is not numeric")
        ELSE IF ~IsFinite(FloatValue(rating_s)) THEN bad("rating must be finite")
        ELSE IF ~IntParses(user_id_s) THEN bad("user_id is not an integer")
        ELSE [err |-> "none", movie_name |-> movie_name,
              rating |-> FloatValue(rating_s), user_id |-> IntValue(user_id_s)]

\* _parse_ratings_line: (movie_name, rating, user_id), or the error raised
_parse_ratings_line(parts) ==
    IF Len(parts) # 3
    THEN [err |-> "expected 3 fields", movie_name |-> <<>>,
          rating |-> [cls |-> "num", tenths |-> 0], user_id |-> 0]
    ELSE ParseRatingFields(Strip(parts[1]), Strip(parts[2]), Strip(parts[3]))

\* faulty variant: a negative user id is not looked at
NegativeUserIdNever(user_id) == FALSE

\* line 322
NegativeUserId(user_id) == user_id < 0

\* faulty variant: the row's movie name resolves to the first key of the
\* same concept (title and year)
ResolveMovieByConcept(by_name, movie_name_raw) ==
    IF {k \in 1..Len(by_name) :
           /\ YearReMatches(movie_name_raw)
           /\ _concept_key(by_name[k].name) = _concept_key(movie_name_raw)} = {}
    THEN <<>>
    ELSE by_name[Least({k \in 1..Len(by_name) :
                           _concept_key(by_name[k].name)
                           = _concept_key(movie_name_raw)})].name

\* lines 330-334: the first key of MOVIES_BY_NAME equivalent to the row's
\* movie name; <<>> stands for None (no key is empty)
ResolveMovie(by_name, movie_name_raw) ==
    IF EquivalentAt(by_name, movie_name_raw) = {} THEN <<>>
    ELSE by_name[Least(EquivalentAt(by_name, movie_name_raw))].name

\* lines 346-347 on the list of the movie and the map of the user
StoreRating(rat, lst, um, user_id, canonical_name, r) ==
    [RATINGS_BY_MOVIE |->
         (canonical_name :> Append(lst, <<user_id, r>>)) @@ rat.RATINGS_BY_MOVIE,
     RATINGS_BY_USER |->
         (user_id :> ((canonical_name :> r) @@ um)) @@ rat.RATINGS_BY_USER]

\* faulty variant: the seen-set is not consulted, so a later rating of the
\* same (user, movie) is appended to the list and replaces the entry of the user
RecordRatingUnseen(rat, seen, user_id, canonical_name, r) ==
    [rat |-> StoreRating(rat, Get(rat.RATINGS_BY_MOVIE, canonical_name, <<>>),
                         Get(rat.RATINGS_BY_USER, user_id, <<>>),
                         user_id, canonical_name, r),
     seen |-> seen \cup {<<user_id, canonical_name>>}]

\* faulty variant: a later rating of the same (user, movie) replaces the first
RecordRatingOverwrite(rat, seen, user_id, canonical_name, r) ==
    [rat |-> StoreRating(rat,
                 SelectSeq(Get(rat.RATINGS_BY_MOVIE, canonical_name, <<>>),
                           LAMBDA e : e[1] # user_id),
                 Get(rat.RATINGS_BY_USER, user_id, <<>>),
                 user_id, canonical_name, r),
     seen |-> seen \cup {<<user_id, canonical_name>>}]

\* lines 340-347: keep the first rating of a (user, movie) pair
RecordRating(rat, seen, user_id, canonical_name, r) ==
    IF <<user_id, canonical_name>> \in seen THEN [rat |-> rat, seen |-> seen]
    ELSE [rat |-> StoreRating(rat, Get(rat.RATINGS_BY_MOVIE, canonical_name, <<>>),
                              Get(rat.RATINGS_BY_USER, user_id, <<>>),
                              user_id, canonical_name, r),
          seen |-> seen \cup {<<user_id, canonical_name>>}]

\* what one iteration of the loop leaves: the error raised ("none" if none),
\* the ratings indexes and the local seen_user_movie
RatingsOut(m, r, sn) == [err |-> m, rat |-> r, seen |-> sn]

RatingsRowRecorded(rr) == RatingsOut("none", rr.rat, rr.seen)

\* lines 336-347, with the canonical name the row resolves to
RatingsRowResolved(rat, seen, p, canonical_name) ==
    IF canonical_name = <<>> THEN RatingsOut("none", rat, seen)
    ELSE RatingsRowRecorded(RecordRating(rat, seen, p.user_id, canonical_name,
                                         p.rating.tenths))

\* faulty variant: a row whose rating is out of range marks its (user,
\* movie) pair as seen
RatingsRowParsedSeesSkipped(by_name, rat, seen, p) ==
    IF p.err # "none" THEN RatingsOut(p.err, rat, seen)
    ELSE IF NegativeUserId(p.user_id)
    THEN RatingsOut("user_id cannot be negative", rat, seen)
    ELSE IF ~RatingInRange(p.rating)
    THEN RatingsOut("none", rat,
                    seen \cup {<<p.user_id, ResolveMovie(by_name, p.movie_name)>>})
    ELSE RatingsRowResolved(rat, seen, p, ResolveMovie(by_name, p.movie_name))

\* faulty variant: the range of the rating is looked at before the sign of
\* the user id
RatingsRowParsedRangeFirst(by_name, rat, seen, p) ==
    IF p.err # "none" THEN RatingsOut(p.err, rat, seen)
    ELSE IF ~RatingInRange(p.rating) THEN RatingsOut("none", rat, seen)
    ELSE IF NegativeUserId(p.user_id)
    THEN RatingsOut("user_id cannot be negative", rat, seen)
    ELSE RatingsRowResolved(rat, seen, p, ResolveMovie(by_name, p.movie_name))

\* lines 321-347, with the parsed row p
RatingsRowParsed(by_name, rat, seen, p) ==
    IF p.err # "none" THEN RatingsOut(p.err, rat, seen)
    ELSE IF NegativeUserId(p.user_id)
    THEN RatingsOut("user_id cannot be negative", rat, seen)
    ELSE IF ~RatingInRange(p.rating) THEN RatingsOut("none", rat, seen)
    ELSE RatingsRowResolved(rat, seen, p, ResolveMovie(by_name, p.movie_name))

\* one iteration of the loop of load_ratings_file (lines 318-347) on the
\* ratings indexes rat and the local seen_user_movie
load_ratings_row(by_name, rat, seen, raw) ==
    RatingsRowParsed(by_name, rat, seen, _parse_ratings_line(raw))

\* sorted(set of integers, reverse=True): the fault of a descending roster
RECURSIVE SortedSeqDescending(_)
SortedSeqDescending(S) ==
    IF S = {} THEN <<>> ELSE SortedSeqDescending(S \ {Least(S)}) \o <<Least(S)>>

\* sorted(set of integers)
RECURSIVE SortedSeq(_)
SortedSeq(S) ==
    IF S = {} THEN <<>> ELSE <<Least(S)>> \o SortedSeq(S \ {Least(S)})

(***************************************************************************)
(* Floats.  A float is kept as the exact value of the IEEE double, counted  *)
(* in units of 2^-64 and written in three limbs of 24 bits, <<high, middle, *)
(* low>>: the doubles of the model are 0 or lie between 2^-11 and 2^8, so   *)
(* each is a whole number of units and a quotient has its guard bits in the *)
(* low limb.  Every operation rounds to 53 significant bits, to nearest,    *)
(* ties to even, as the arithmetic of float does.                           *)
(***************************************************************************)
LimbBase == 2^24

\* x + y on limbs, exact
LimbAdd(x, y) ==
    << x[1] + y[1] + ((x[2] + y[2] + ((x[3] + y[3]) \div LimbBase)) \div LimbBase),
       (x[2] + y[2] + ((x[3] + y[3]) \div LimbBase)) % LimbBase,
       (x[3] + y[3]) % LimbBase >>

\* the steps of the long division of limbs by n (0 < n < 128), from the
\* remainder r of the limbs above: the quotient limbs and whether a rest is
\* left
LimbDivLow(q2, q1, r, low, n) ==
    [q |-> <<q2, q1, (r * LimbBase + low) \div n>>,
     sticky |-> (r * LimbBase + low) % n # 0]

LimbDivMid(q2, r, x, n) ==
    LimbDivLow(q2, (r * LimbBase + x[2]) \div n, (r * LimbBase + x[2]) % n, x[3], n)

LimbDiv(x, n) == LimbDivMid(x[1] \div n, x[1] % n, x, n)

\* the place of the highest 1 bit of a limb 0 < v < 2^24
Log2(v) == CHOOSE k \in 0..23 : 2^k <= v /\ v < 2^(k + 1)

\* the place of the highest 1 bit of limbs that are not all 0
TopBit(x) ==
    IF x[1] > 0 THEN 48 + Log2(x[1])
    ELSE IF x[2] > 0 THEN 24 + Log2(x[2])
    ELSE Log2(x[3])

\* x with its d lowest bits (0 < d < 24) rounded away: up when they are
\* more than half a unit of the last place kept, or exactly half (no rest
\* behind them) and the last place kept is odd
RoundAt(x, sticky, d) ==
    IF \/ x[3] % 2^d > 2^(d - 1)
       \/ /\ x[3] % 2^d = 2^(d - 1)
          /\ (sticky \/ (x[3] \div 2^d) % 2 = 1)
    THEN LimbAdd(<<x[1], x[2], x[3] - (x[3] % 2^d)>>, <<0, 0, 2^d>>)
    ELSE <<x[1], x[2], x[3] - (x[3] % 2^d)>>

\* the double nearest to the exact value x (and a rest behind it)
FRound(x, sticky) ==
    IF x = <<0, 0, 0>> \/ TopBit(x) <= 52 THEN x
    ELSE RoundAt(x, sticky, TopBit(x) - 52)

FRoundDiv(d) == FRound(d.q, d.sticky)

\* float("t/10") for a literal of t tenths, 0 <= t < 256
FloatOfTenths(t) == FRoundDiv(LimbDiv(<<t * 2^16, 0, 0>>, 10))

\* x + y on floats
FAdd(x, y) == FRound(LimbAdd(x, y), FALSE)

\* x / n on floats, for an int 0 < n < 128
FDiv(x, n) == FRoundDiv(LimbDiv(x, n))

\* x < y on floats
FLess(x, y) ==
    \/ x[1] < y[1]
    \/ x[1] = y[1] /\ x[2] < y[2]
    \/ x[1] = y[1] /\ x[2] = y[2] /\ x[3] < y[3]

\* sum(q) from the float acc on, left to right
RECURSIVE FSumFrom(_, _)
FSumFrom(acc, q) ==
    IF q = <<>> THEN acc ELSE FSumFrom(FAdd(acc, Head(q)), Tail(q))

\* sum(q) of floats
FSum(q) == FSumFrom(<<0, 0, 0>>, q)

(***************************************************************************)
(* Statistics.  A rating of t tenths in the indexes stands for the float    *)
(* float("t/10"); the averages are floats.                                  *)
(***************************************************************************)
RECURSIVE SumSeq(_)
SumSeq(q) == IF q = <<>> THEN 0 ELSE Head(q) + SumSeq(Tail(q))

\* the sum of f over S
RECURSIVE SumOver(_, _)
SumOver(S, f) ==
    IF S = {} THEN 0
    ELSE f[Least(S)] + SumOver(S \ {Least(S)}, f)

\* the elements of a finite set of strings in some fixed order
RECURSIVE Enumerate(_)
Enumerate(S) ==
    IF S = {} THEN <<>>
    ELSE <<CHOOSE x \in S : TRUE>> \o Enumerate(S \ {CHOOSE x \in S : TRUE})

\* faulty variant: the total is not divided by the count
MovieStatOfTotal(lst) ==
    [avg |-> FSum([k \in 1..Len(lst) |-> FloatOfTenths(lst[k][2])]),
     count |-> Len(lst)]

\* lines 361-363: the average and the count of one list of (user, rating)
MovieStatOf(lst) ==
    [avg |-> FDiv(FSum([k \in 1..Len(lst) |-> FloatOfTenths(lst[k][2])]), Len(lst)),
     count |-> Len(lst)]

\* compute_movie_stats
compute_movie_stats(by_movie) ==
    [m \in {n \in DOMAIN by_movie : by_movie[n] # <<>>} |->
        MovieStatOf(by_movie[m])]

\* lines 375-379: the movies of a genre that have statistics
RatedMovies(movie_names, movie_stats) ==
    {m \in movie_names : m \in DOMAIN movie_stats /\ movie_stats[m].count > 0}

\* faulty variant: the sum of the averages is divided by the number of
\* ratings
GenreStatOfPerRating(ms, movie_stats) ==
    [avg_of_movie_avgs |->
         FDiv(FSum([k \in 1..Len(ms) |-> movie_stats[ms[k]].avg]),
              SumSeq([k \in 1..Len(ms) |-> movie_stats[ms[k]].count])),
     total_ratings |-> SumSeq([k \in 1..Len(ms) |-> movie_stats[ms[k]].count])]

\* lines 381-384, on the rated movies of the genre in some order
GenreStatOf(ms, movie_stats) ==
    [avg_of_movie_avgs |->
         FDiv(FSum([k \in 1..Len(ms) |-> movie_stats[ms[k]].avg]), Len(ms)),
     total_ratings |-> SumSeq([k \in 1..Len(ms) |-> movie_stats[ms[k]].count])]

\* compute_genre_stats
compute_genre_stats(genres, movie_stats) ==
    [g \in {h \in DOMAIN genres : RatedMovies(genres[h], movie_stats) # {}} |->
        GenreStatOf(Enumerate(RatedMovies(genres[g], movie_stats)), movie_stats)]

\* the characters of the model in code point order
CodePoints ==
    <<"\t", " ", "(", ")", "+", "-", ".", "0", "1", "2", "3", "4", "5", "6",
      "7", "8", "9">> \o Uppers \o Lowers

\* ord(c), by the place of c in that order
OrdTable ==
    [c \in {CodePoints[k] : k \in 1..Len(CodePoints)} |->
        CHOOSE k \in 1..Len(CodePoints) : CodePoints[k] = c]

Ord(c) == OrdTable[c]

\* a < b for str
StrLess(a, b) ==
    \E k \in 1..(Len(a) + 1) :
        /\ k <= Len(b)
        /\ \A j \in 1..(k - 1) : a[j] = b[j]
        /\ (k = Len(a) + 1 \/ Ord(a[k]) < Ord(b[k]))

\* lines 397-404: genre -> (sum, count) over the movies one user rated
GenreOf(by_name, m) == RecordOf(by_name, m).genre_norm

\* the ratings one user gave in genre g, in the order of known
GenreRatings(rated_map, by_name, known, g) ==
    [k \in 1..Len(SelectSeq(known, LAMBDA m : GenreOf(by_name, m) = g)) |->
        FloatOfTenths(rated_map[SelectSeq(known, LAMBDA m : GenreOf(by_name, m) = g)[k]])]

AggOfKnown(rated_map, by_name, known) ==
    [g \in {GenreOf(by_name, known[k]) : k \in 1..Len(known)} |->
        [sum |-> FSum(GenreRatings(rated_map, by_name, known, g)),
         count |-> Len(GenreRatings(rated_map, by_name, known, g))]]

UserGenreAgg(rated_map, by_name) ==
    AggOfKnown(rated_map, by_name,
               Enumerate({m \in DOMAIN rated_map : m \in NameKeys(by_name)}))

\* the display name the sort key of line 412 uses
TopGenreName(t, genre_case) == Lower(Get(genre_case, t.genre, t.genre))

\* the sort key of line 412 puts x before y
TopGenreBefore(x, y, genre_case) ==
    \/ FLess(y.avg, x.avg)
    \/ x.avg = y.avg /\ x.count > y.count
    \/ /\ x.avg = y.avg /\ x.count = y.count
       /\ StrLess(TopGenreName(x, genre_case), TopGenreName(y, genre_case))

\* faulty variant: a genre is a candidate from two ratings on
TopGenreCandidatesMinTwo(agg) ==
    {[genre |-> g, avg |-> FDiv(agg[g].sum, agg[g].count), count |-> agg[g].count] :
        g \in {h \in DOMAIN agg : agg[h].count >= 2}}

\* line 411: the candidates (genre, average, count) of one aggregate
TopGenreCandidates(agg) ==
    {[genre |-> g, avg |-> FDiv(agg[g].sum, agg[g].count), count |-> agg[g].count] :
        g \in {h \in DOMAIN agg : agg[h].count >= 1}}

\* lines 410-416: the first candidate in sorted order
BestCandidate(cands, genre_case) ==
    CHOOSE x \in cands : \A y \in cands \ {x} : TopGenreBefore(x, y, genre_case)

\* compute_user_top_genre_cache
compute_user_top_genre_cache(by_user, by_name, genre_case) ==
    [u \in {v \in DOMAIN by_user :
                TopGenreCandidates(UserGenreAgg(by_user[v], by_name)) # {}} |->
        BestCandidate(TopGenreCandidates(UserGenreAgg(by_user[u], by_name)),
                      genre_case)]

(***************************************************************************)
(* Sorting keys (lines 482-493) and what the menu features list.            *)
(***************************************************************************)
\* stands for the default id 10**12 of line 491, above every id of a file
NoMovieId == 2^30

\* faulty variant: the names are compared as they are written
_movie_sort_key_case_sensitive(by_name, movie_stats, movie_name) ==
    [avg |-> Get(movie_stats, movie_name, [avg |-> <<0, 0, 0>>, count |-> 0]).avg,
     count |-> Get(movie_stats, movie_name, [avg |-> <<0, 0, 0>>, count |-> 0]).count,
     lower |-> movie_name,
     movie_id |-> IF movie_name \in NameKeys(by_name)
                  THEN RecordOf(by_name, movie_name).movie_id ELSE NoMovieId]

\* _movie_sort_key: (-avg, -count, movie_name.lower(), movie_id), kept with
\* avg and count as they are; MovieKeyLess compares them downwards
_movie_sort_key(by_name, movie_stats, movie_name) ==
    [avg |-> Get(movie_stats, movie_name, [avg |-> <<0, 0, 0>>, count |-> 0]).avg,
     count |-> Get(movie_stats, movie_name, [avg |-> <<0, 0, 0>>, count |-> 0]).count,
     lower |-> Lower(movie_name),
     movie_id |-> IF movie_name \in NameKeys(by_name)
                  THEN RecordOf(by_name, movie_name).movie_id ELSE NoMovieId]

\* a < b for two keys of _movie_sort_key, as tuples are compared
MovieKeyLess(a, b) ==
    \/ FLess(b.avg, a.avg)
    \/ a.avg = b.avg /\ a.count > b.count
    \/ a.avg = b.avg /\ a.count = b.count /\ StrLess(a.lower, b.lower)
    \/ /\ a.avg = b.avg /\ a.count = b.count /\ a.lower = b.lower
       /\ a.movie_id < b.movie_id

\* in a stable sort the name at place h comes before the name at place j:
\* its key is less, or not greater and it came first
SortsBefore(keys, h, j) ==
    \/ MovieKeyLess(keys[h], keys[j])
    \/ ~MovieKeyLess(keys[j], keys[h]) /\ h < j

\* the places the names at place j and behind take in the sorted list
RECURSIVE Ranks(_, _)
Ranks(keys, j) ==
    IF j > Len(keys) THEN <<>>
    ELSE <<1 + Cardinality({h \in 1..Len(keys) : SortsBefore(keys, h, j)})>>
         \o Ranks(keys, j + 1)

\* the names in the order of their ranks
SortedByRanks(names, ranks) ==
    [k \in 1..Len(names) |-> names[CHOOSE j \in 1..Len(names) : ranks[j] = k]]

\* the names in the order of their keys
SortedByKeys(names, keys) ==
    CHOOSE q \in {SortedByRanks(names, ranks) : ranks \in {Ranks(keys, 1)}} : TRUE

\* the keys of the names, in their order
RECURSIVE MovieKeys(_, _, _)
MovieKeys(names, by_name, movie_stats) ==
    IF names = <<>> THEN <<>>
    ELSE <<_movie_sort_key(by_name, movie_stats, Head(names))>>
         \o MovieKeys(Tail(names), by_name, movie_stats)

\* sorted(names, key=_movie_sort_key) for names in the order of iteration
SortedMovies(names, by_name, movie_stats) ==
    CHOOSE q \in {SortedByKeys(names, keys) :
                     keys \in {MovieKeys(names, by_name, movie_stats)}} : TRUE

\* line 516: MOVIES_BY_NAME.keys() in the order of insertion, sorted
AllMoviesRanked(by_name, movie_stats) ==
    SortedMovies([k \in 1..Len(by_name) |-> by_name[k].name], by_name, movie_stats)

\* lines 557 and 672: the movies of one genre, sorted
GenreMoviesRanked(genres, norm, by_name, movie_stats) ==
    SortedMovies(Enumerate(Get(genres, norm, {})), by_name, movie_stats)

\* line 541: the display names of the genres, sorted by their lower case
RECURSIVE SortedDisplay(_)
SortedDisplay(S) ==
    IF S = {} THEN <<>>
    ELSE <<CHOOSE x \in S : \A y \in S \ {x} : ~StrLess(Lower(y), Lower(x))>>
         \o SortedDisplay(S \ {CHOOSE x \in S : \A y \in S \ {x} :
                                   ~StrLess(Lower(y), Lower(x))})

GenresDisplay(genres, genre_case) ==
    SortedDisplay({Get(genre_case, g, g) : g \in DOMAIN genres})

\* faulty variant: the movies the user rated stay in the list
UnseenKeepsRated(candidates, rated) == candidates

\* line 674: the candidates the user has not rated
Unseen(candidates, rated) == SelectSeq(candidates, LAMBDA m : m \notin rated)

\* line 680: unseen[:3]
FirstThree(q) == SubSeq(q, 1, IF Len(q) < 3 THEN Len(q) ELSE 3)

\* lines 671-680: the recommendations for the top genre norm_g of a user
Recommendations(norm_g, rated_map, genres, by_name, movie_stats) ==
    FirstThree(Unseen(GenreMoviesRanked(genres, norm_g, by_name, movie_stats),
                      DOMAIN rated_map))

\* lines 656-659: the cache after the lookup of uid, computed for uid alone
\* (_compute_user_top_genre_for) when it holds nothing for uid
TopGenreLookup(top_genre, uid, by_user, by_name, genre_case) ==
    IF uid \in DOMAIN top_genre THEN top_genre
    ELSE compute_user_top_genre_cache((uid :> by_user[uid]), by_name, genre_case)
         @@ top_genre

(***************************************************************************)
(* Input files.  A line is the tuple of its fields.                         *)
(***************************************************************************)
UpA == <<"U", "p", " ", "(", "2", "0", "0", "9", ")">>
UpB == <<"U", "P", " ", "(", "2", "0", "0", "9", ")">>
UpW == <<"U", "p", " ", " ", "(", "2", "0", "0", "9", ")">>
AbA == <<"A", "b", " ", "(", "2", "0", "1", "0", ")">>
UpNoYear == <<"U", "p">>
Co == <<"C", "o">>
Dr == <<"D", "r">>

BlankLine == << <<" ">> >>

\* lines of a movies file: genre|movie_id|movie_name
MovieLines ==
    { <<Co, <<"1">>, UpA>>,            \* Co|1|Up (2009)
      <<Dr, <<"1">>, UpB>>,            \* Dr|1|UP (2009)
      <<Co, <<"1">>, UpW>>,            \* Co|1|Up  (2009)
      <<Dr, <<"2">>, UpB>>,            \* Dr|2|UP (2009)
      <<Dr, <<" ", "2">>, AbA>>,       \* Dr| 2|Ab (2010)
      <<Co, <<"1">>, AbA>>,            \* Co|1|Ab (2010)
      <<Co, <<"-", "1">>, UpA>>,       \* Co|-1|Up (2009)
      <<Co, <<"1">>, UpNoYear>>,       \* Co|1|Up
      <<Co, <<"x">>, UpA>>,            \* Co|x|Up (2009)
      <<Co, <<>>, UpA>>,               \* Co||Up (2009)
      <<Co, <<"1">>>>,                 \* Co|1
      BlankLine }

\* lines of a ratings file: movie_name|rating|user_id
RatingLines ==
    { <<UpA, <<"4">>, <<"7">>>>,                  \* Up (2009)|4|7
      <<UpA, <<"1">>, <<"7">>>>,                  \* Up (2009)|1|7
      <<UpB, <<"5">>, <<"7">>>>,                  \* UP (2009)|5|7
      <<UpA, <<"7", ".", "5">>, <<"7">>>>,        \* Up (2009)|7.5|7
      <<AbA, <<"0">>, <<"8">>>>,                  \* Ab (2010)|0|8
      <<UpW, <<"3">>, <<"7">>>>,                  \* Up  (2009)|3|7
      <<UpA, <<"4">>, <<"-", "1">>>>,             \* Up (2009)|4|-1
      <<UpW, <<"7", ".", "5">>, <<"-", "1">>>>,   \* Up  (2009)|7.5|-1
      <<UpA, <<"n", "a", "n">>, <<"7">>>>,        \* Up (2009)|nan|7
      <<UpA, <<"-", "i", "n", "f">>, <<"7">>>>,   \* Up (2009)|-inf|7
      <<UpA, <<"4">>, <<"3", ".", "5">>>>,        \* Up (2009)|4|3.5
      <<AbA, <<"7", ".", "5">>, <<"9">>>>,        \* Ab (2010)|7.5|9
      BlankLine }

\* the lines offered at the prompts of a whole session
SessionMovieLines ==
    { <<Co, <<"1">>, UpA>>, <<Dr, <<" ", "2">>, AbA>>,
      <<Co, <<"-", "1">>, UpA>>, <<Dr, <<"1">>, UpB>> }

SessionRatingLines ==
    { <<UpA, <<"4">>, <<"7">>>>, <<AbA, <<"0">>, <<"8">>>>,
      <<UpA, <<"4">>, <<"-", "1">>>>, <<UpA, <<"7", ".", "5">>, <<"7">>>> }

\* a path that is not a file
NoFile == [exists |-> FALSE, text |-> <<>>]

\* the files of at most max lines over the given lines, and no file at all
Files(pool, max) ==
    {[exists |-> TRUE, text |-> t] :
        t \in UNION {[1..n -> pool] : n \in 0..max}} \cup {NoFile}

SessionMovieFiles == Files(SessionMovieLines, MaxSessionLines)
SessionRatingFiles == Files(SessionRatingLines, MaxSessionLines)
MovieFiles == Files(MovieLines, MaxMovieLines)
RatingFiles == Files(RatingLines, MaxRatingLines)

\* a title with its year
Titled(t) == t \o <<" ", "(", "2", "0", "1", "0", ")">>

StAb == Titled(<<"A", "b">>)
Stba == Titled(<<"b", "a">>)
StCa == Titled(<<"C", "a">>)
StDa == Titled(<<"D", "a">>)
StEa == Titled(<<"E", "a">>)
StFa == Titled(<<"F", "a">>)

\* the catalog the statistics are taken over: five movies of one genre,
\* spelled in two ways, and one of another
StatMovieFiles ==
    { [exists |-> TRUE,
       text |-> << <<Co, <<"1">>, StAb>>,            \* Co|1|Ab (2010)
                   <<Co, <<"2">>, Stba>>,            \* Co|2|ba (2010)
                   <<<<"C", "O">>, <<"3">>, StCa>>,  \* CO|3|Ca (2010)
                   <<Co, <<"4">>, StDa>>,            \* Co|4|Da (2010)
                   <<Co, <<"5">>, StEa>>,            \* Co|5|Ea (2010)
                   <<Dr, <<"6">>, StFa>> >>] }       \* Dr|6|Fa (2010)

\* lines of the ratings files over that catalog.  (0.6 + 1.2) / 2 is not
\* 0.9 in floats; the other ratings are multiples of 0.5, which floats add
\* exactly.
StatRatingLines ==
    { <<StAb, <<"0", ".", "6">>, <<"7">>>>,       \* Ab (2010)|0.6|7
      <<Stba, <<"1", ".", "2">>, <<"7">>>>,       \* ba (2010)|1.2|7
      <<StFa, <<"0", ".", "9">>, <<"7">>>>,       \* Fa (2010)|0.9|7
      <<StAb, <<"5">>, <<"8">>>>,                 \* Ab (2010)|5|8
      <<StCa, <<"5">>, <<"8">>>>,                 \* Ca (2010)|5|8
      <<StDa, <<"0">>, <<"8">>>>,                 \* Da (2010)|0|8
      <<StFa, <<"5">>, <<"8">>>>,                 \* Fa (2010)|5|8
      <<Stba, <<"5">>, <<"7">>>>,                 \* ba (2010)|5|7
      <<Stba, <<"5">>, <<"8">>>>,                 \* ba (2010)|5|8
      <<StEa, <<"7", ".", "5">>, <<"7">>>> }      \* Ea (2010)|7.5|7

StatRatingFiles == Files(StatRatingLines, MaxStatLines)

\* the known-good movies file the ratings files are paired with
BaselineMovieFiles ==
    { [exists |-> TRUE,
       text |-> << <<Co, <<"1">>, UpA>>, <<Dr, <<" ", "2">>, AbA>> >>] }

(***************************************************************************)
(* State: the global session datastore (lines 56-67), the position in       *)
(* load_all_with_prompt, and the locals of the load in progress.            *)
(***************************************************************************)
VARIABLES
    pc,               \* "movies_prompt", "movies_loop", "ratings_prompt",
                      \* "ratings_loop", "menu" or "exit"
    movies_path,      \* the file last entered at the movies prompt
    ratings_path,     \* the file last entered at the ratings prompt
    lines, i,         \* the non-blank lines of the load in progress, the
                      \* number enumerate(lines, start=1) gives the next row
    concept_to_id,    \* local of load_movies_file
    seen_user_movie,  \* local of load_ratings_file
    raised,           \* the LoadError of the latest load attempt, or NoError
    journal,          \* what the session has printed so far: "movies_error",
                      \* "ratings_error" (an [Error] line), "reload"
    output,           \* what the feature chosen last at the menu listed
    MOVIES_BY_ID, MOVIES_BY_NAME, GENRES, GENRE_ORIGINAL_CASE,
    RATINGS_BY_MOVIE, RATINGS_BY_USER, MOVIE_STATS, GENRE_STATS,
    USER_IDS, USER_TOP_GENRE

catalog == <<MOVIES_BY_ID, MOVIES_BY_NAME, GENRES, GENRE_ORIGINAL_CASE>>
ratings == <<RATINGS_BY_MOVIE, RATINGS_BY_USER>>
derived == <<MOVIE_STATS, GENRE_STATS, USER_IDS, USER_TOP_GENRE>>
locals == <<lines, i, concept_to_id, seen_user_movie>>
vars == <<pc, movies_path, ratings_path, locals, raised, journal, output,
          catalog, ratings, derived>>

\* the four catalog globals as one record
Catalog ==
    [MOVIES_BY_ID |-> MOVIES_BY_ID, MOVIES_BY_NAME |-> MOVIES_BY_NAME,
     GENRES |-> GENRES, GENRE_ORIGINAL_CASE |-> GENRE_ORIGINAL_CASE]

EmptyCatalog ==
    [MOVIES_BY_ID |-> <<>>, MOVIES_BY_NAME |-> <<>>, GENRES |-> <<>>,
     GENRE_ORIGINAL_CASE |-> <<>>]

\* the two ratings indexes as one record
Ratings ==
    [RATINGS_BY_MOVIE |-> RATINGS_BY_MOVIE, RATINGS_BY_USER |-> RATINGS_BY_USER]

EmptyRatings == [RATINGS_BY_MOVIE |-> <<>>, RATINGS_BY_USER |-> <<>>]

\* the ten globals as one record
Globals ==
    [MOVIES_BY_ID |-> MOVIES_BY_ID, MOVIES_BY_NAME |-> MOVIES_BY_NAME,
     GENRES |-> GENRES, GENRE_ORIGINAL_CASE |-> GENRE_ORIGINAL_CASE,
     RATINGS_BY_MOVIE |-> RATINGS_BY_MOVIE, RATINGS_BY_USER |-> RATINGS_BY_USER,
     MOVIE_STATS |-> MOVIE_STATS, GENRE_STATS |-> GENRE_STATS,
     USER_IDS |-> USER_IDS, USER_TOP_GENRE |-> USER_TOP_GENRE]

EmptyGlobals ==
    [MOVIES_BY_ID |-> <<>>, MOVIES_BY_NAME |-> <<>>, GENRES |-> <<>>,
     GENRE_ORIGINAL_CASE |-> <<>>, RATINGS_BY_MOVIE |-> <<>>,
     RATINGS_BY_USER |-> <<>>, MOVIE_STATS |-> <<>>, GENRE_STATS |-> <<>>,
     USER_IDS |-> <<>>, USER_TOP_GENRE |-> <<>>]

\* faulty variant: the catalog survives the clearing
_clear_globals_keeps_catalog ==
    [EmptyGlobals EXCEPT !.MOVIES_BY_ID = MOVIES_BY_ID,
                         !.MOVIES_BY_NAME = MOVIES_BY_NAME,
                         !.GENRES = GENRES,
                         !.GENRE_ORIGINAL_CASE = GENRE_ORIGINAL_CASE]

\* _clear_globals: the globals it leaves
_clear_globals == EmptyGlobals

\* no feature has listed anything
NoOutput == [feature |-> "none", arg |-> 0, genre |-> <<>>, list |-> <<>>]

Init ==
    /\ pc = "movies_prompt"
    /\ output = NoOutput
    /\ movies_path = NoFile /\ ratings_path = NoFile
    /\ lines = <<>> /\ i = 0
    /\ concept_to_id = <<>> /\ seen_user_movie = {}
    /\ raised = NoError
    /\ journal = {}
    /\ MOVIES_BY_ID = <<>> /\ MOVIES_BY_NAME = <<>>
    /\ GENRES = <<>> /\ GENRE_ORIGINAL_CASE = <<>>
    /\ RATINGS_BY_MOVIE = <<>> /\ RATINGS_BY_USER = <<>>
    /\ MOVIE_STATS = <<>> /\ GENRE_STATS = <<>>
    /\ USER_IDS = <<>> /\ USER_TOP_GENRE = <<>>

(***************************************************************************)
(* load_all_with_prompt (lines 419-475) and feature_reload_data.            *)
(***************************************************************************)
SetCatalog(c) ==
    /\ MOVIES_BY_ID' = c.MOVIES_BY_ID
    /\ MOVIES_BY_NAME' = c.MOVIES_BY_NAME
    /\ GENRES' = c.GENRES
    /\ GENRE_ORIGINAL_CASE' = c.GENRE_ORIGINAL_CASE

SetRatings(r) ==
    /\ RATINGS_BY_MOVIE' = r.RATINGS_BY_MOVIE
    /\ RATINGS_BY_USER' = r.RATINGS_BY_USER

SetDerived(g) ==
    /\ MOVIE_STATS' = g.MOVIE_STATS
    /\ GENRE_STATS' = g.GENRE_STATS
    /\ USER_IDS' = g.USER_IDS
    /\ USER_TOP_GENRE' = g.USER_TOP_GENRE

\* the frame of a load is gone once it returns or raises
DropLocals ==
    /\ lines' = <<>> /\ i' = 0
    /\ concept_to_id' = <<>> /\ seen_user_movie' = {}

\* lines 426-440 and 231-244: a path is entered at the movies prompt, the
\* globals are cleared and load_movies_file runs up to its loop
EnterMoviesPath(f) ==
    /\ pc = "movies_prompt"
    /\ movies_path' = f
    /\ ratings_path' = ratings_path
    /\ output' = output
    /\ LET g == _clear_globals
       IN  SetCatalog(g) /\ SetRatings(g) /\ SetDerived(g)
    /\ IF ~f.exists
       THEN /\ raised' = LoadError("Movies file does not exist.", 0)
            /\ journal' = journal \cup {"movies_error"}
            /\ pc' = "movies_prompt"
            /\ DropLocals
       ELSE IF \A k \in 1..Len(f.text) : IsBlankLine(f.text[k])
       THEN /\ raised' = LoadError("Movies file is empty.", 0)
            /\ journal' = journal \cup {"movies_error"}
            /\ pc' = "movies_prompt"
            /\ DropLocals
       ELSE /\ raised' = NoError
            /\ journal' = journal
            /\ pc' = "movies_loop"
            /\ lines' = NonBlankLines(f.text)
            /\ i' = 1
            /\ concept_to_id' = <<>>
            /\ seen_user_movie' = {}

\* what the row result r of load_movies_row makes of the state
MoviesRowDone(r) ==
    /\ SetCatalog(r.cat)
    /\ IF r.err # "none"
       THEN /\ raised' = LoadError(r.err, i)
            /\ journal' = journal \cup {"movies_error"}
            /\ pc' = "movies_prompt"
            /\ DropLocals
       ELSE /\ raised' = NoError
            /\ journal' = journal
            /\ IF i = Len(lines)
               THEN pc' = "ratings_prompt" /\ DropLocals
               ELSE /\ pc' = "movies_loop"
                    /\ i' = i + 1
                    /\ concept_to_id' = r.concept_to_id
                    /\ UNCHANGED <<lines, seen_user_movie>>

\* lines 244-294 and 435-437: one row of the movies file; a LoadError goes
\* back to the movies prompt, the end of the loop on to the ratings prompt
MoviesRow ==
    /\ pc = "movies_loop"
    /\ MoviesRowDone(load_movies_row(Catalog, concept_to_id, lines[i]))
    /\ UNCHANGED <<movies_path, ratings_path, output, ratings, derived>>

\* lines 350 and 453-454, given the movie statistics of line 452
ComputeRest(cat, rat, ms) ==
    [USER_IDS |-> SortedSeq(DOMAIN rat.RATINGS_BY_USER),
     MOVIE_STATS |-> ms,
     GENRE_STATS |-> compute_genre_stats(cat.GENRES, ms),
     USER_TOP_GENRE |->
         compute_user_top_genre_cache(rat.RATINGS_BY_USER, cat.MOVIES_BY_NAME,
                                      cat.GENRE_ORIGINAL_CASE)]

\* lines 350 and 452-454: USER_IDS and the three compute_* calls
ComputeAll(cat, rat) ==
    ComputeRest(cat, rat, compute_movie_stats(rat.RATINGS_BY_MOVIE))

\* faulty variant: the except branch leaves the ratings-dependent globals
\* as the aborted load left them
RatingsLoadFailedKeeps(m, n) ==
    /\ raised' = LoadError(m, n)
    /\ journal' = journal \cup {"ratings_error"}
    /\ pc' = "ratings_prompt"
    /\ UNCHANGED <<ratings, derived>>
    /\ DropLocals

\* lines 460-465: the except branch empties the ratings-dependent globals
RatingsLoadFailed(m, n) ==
    /\ raised' = LoadError(m, n)
    /\ journal' = journal \cup {"ratings_error"}
    /\ pc' = "ratings_prompt"
    /\ SetRatings(EmptyGlobals) /\ SetDerived(EmptyGlobals)
    /\ DropLocals

\* lines 444-451 and 306-318: a path is entered at the ratings prompt and
\* load_ratings_file runs up to its loop
EnterRatingsPath(f) ==
    /\ pc = "ratings_prompt"
    /\ ratings_path' = f
    /\ IF ~f.exists
       THEN RatingsLoadFailed("Ratings file does not exist.", 0)
       ELSE IF \A k \in 1..Len(f.text) : IsBlankLine(f.text[k])
       THEN RatingsLoadFailed("Ratings file is empty.", 0)
       ELSE /\ raised' = NoError
            /\ journal' = journal
            /\ pc' = "ratings_loop"
            /\ lines' = NonBlankLines(f.text)
            /\ i' = 1
            /\ seen_user_movie' = {}
            /\ concept_to_id' = <<>>
            /\ UNCHANGED <<ratings, derived>>
    /\ UNCHANGED <<movies_path, output, catalog>>

\* what the row result r of load_ratings_row makes of the state
RatingsRowDone(r) ==
    IF r.err # "none"
    THEN RatingsLoadFailed(r.err, i)
    ELSE /\ raised' = NoError
         /\ journal' = journal
         /\ SetRatings(r.rat)
         /\ IF i = Len(lines)
            THEN /\ pc' = "menu"
                 /\ SetDerived(ComputeAll(Catalog, r.rat))
                 /\ DropLocals
            ELSE /\ pc' = "ratings_loop"
                 /\ i' = i + 1
                 /\ seen_user_movie' = r.seen
                 /\ UNCHANGED <<lines, concept_to_id, derived>>

\* lines 318-350 and 452-466: one row of the ratings file; a LoadError goes
\* back to the ratings prompt through the except branch; after the last row
\* USER_IDS is sorted, the statistics are computed and the loader returns
RatingsRow ==
    /\ pc = "ratings_loop"
    /\ RatingsRowDone(load_ratings_row(MOVIES_BY_NAME, Ratings, seen_user_movie,
                                       lines[i]))
    /\ UNCHANGED <<movies_path, ratings_path, output, catalog>>

\* feature_reload_data (lines 699-703): the globals are cleared and the
\* loader starts again
ReloadData ==
    /\ pc = "menu"
    /\ pc' = "movies_prompt"
    /\ LET g == _clear_globals
       IN  SetCatalog(g) /\ SetRatings(g) /\ SetDerived(g)
    /\ movies_path' = NoFile /\ ratings_path' = NoFile
    /\ raised' = NoError
    /\ journal' = journal \cup {"reload"}
    /\ output' = NoOutput
    /\ DropLocals

\* feature_movie_popularity (lines 512-526): every movie, ranked
MoviePopularity ==
    /\ pc = "menu"
    /\ output' = [feature |-> "movie_popularity", arg |-> 0, genre |-> <<>>,
                  list |-> AllMoviesRanked(MOVIES_BY_NAME, MOVIE_STATS)]
    /\ UNCHANGED <<pc, movies_path, ratings_path, locals, raised, journal,
                   catalog, ratings, derived>>

\* lines 555-557 for the display name chosen
GenreListing(idx, chosen_display) ==
    [feature |-> "movie_popularity_in_genre", arg |-> idx,
     genre |-> _norm_genre(chosen_display),
     list |-> GenreMoviesRanked(GENRES, _norm_genre(chosen_display),
                                MOVIES_BY_NAME, MOVIE_STATS)]

\* feature_movie_popularity_in_genre (lines 529-569) with the number idx of
\* a listed genre entered: the movies of that genre, ranked
MoviePopularityInGenre(idx) ==
    /\ pc = "menu"
    /\ GENRES # <<>>
    /\ idx \in 1..Len(GenresDisplay(GENRES, GENRE_ORIGINAL_CASE))
    /\ output' = GenreListing(idx, GenresDisplay(GENRES, GENRE_ORIGINAL_CASE)[idx])
    /\ UNCHANGED <<pc, movies_path, ratings_path, locals, raised, journal,
                   catalog, ratings, derived>>

\* lines 661-680 for the cache after the lookup of line 656
Recommended(uid, top_genre) ==
    IF uid \notin DOMAIN top_genre
    THEN [feature |-> "recommend_movies", arg |-> uid, genre |-> <<>>,
          list |-> <<>>]
    ELSE [feature |-> "recommend_movies", arg |-> uid,
          genre |-> top_genre[uid].genre,
          list |-> Recommendations(top_genre[uid].genre, RATINGS_BY_USER[uid],
                                   GENRES, MOVIES_BY_NAME, MOVIE_STATS)]

\* feature_recommend_movies (lines 631-685) with the id uid of a user of
\* RATINGS_BY_USER entered: up to three unseen movies of the top genre
RecommendMovies(uid) ==
    /\ pc = "menu"
    /\ USER_IDS # <<>>
    /\ uid \in DOMAIN RATINGS_BY_USER
    /\ USER_TOP_GENRE' = TopGenreLookup(USER_TOP_GENRE, uid, RATINGS_BY_USER,
                                        MOVIES_BY_NAME, GENRE_ORIGINAL_CASE)
    /\ output' = Recommended(uid, TopGenreLookup(USER_TOP_GENRE, uid,
                                                 RATINGS_BY_USER, MOVIES_BY_NAME,
                                                 GENRE_ORIGINAL_CASE))
    /\ UNCHANGED <<pc, movies_path, ratings_path, locals, raised, journal,
                   catalog, ratings, MOVIE_STATS, GENRE_STATS, USER_IDS>>

\* 'q' at a prompt or at the menu: sys.exit(0), the globals stay as they are
Quit ==
    /\ pc \in {"movies_prompt", "ratings_prompt", "menu"}
    /\ pc' = "exit"
    /\ UNCHANGED <<movies_path, ratings_path, locals, raised, journal, output,
                   catalog, ratings, derived>>

\* a whole session, over short files
Next ==
    \/ \E f \in SessionMovieFiles : EnterMoviesPath(f)
    \/ MoviesRow
    \/ \E f \in SessionRatingFiles : EnterRatingsPath(f)
    \/ RatingsRow
    \/ MoviePopularity
    \/ \E idx \in 1..Cardinality(DOMAIN GENRES) : MoviePopularityInGenre(idx)
    \/ \E uid \in DOMAIN RATINGS_BY_USER : RecommendMovies(uid)
    \/ ReloadData
    \/ Quit

Spec == Init /\ [][Next]_vars

\* the first prompt of a run: nothing was entered and nothing was raised
FirstMoviesPrompt ==
    pc = "movies_prompt" /\ movies_path = NoFile /\ raised = NoError

FirstRatingsPrompt ==
    pc = "ratings_prompt" /\ ratings_path = NoFile /\ raised = NoError

\* cli_try_movies_only: one path at the movies prompt, then 'q'; over all
\* the movies files
NextMovies ==
    \/ FirstMoviesPrompt /\ \E f \in MovieFiles : EnterMoviesPath(f)
    \/ MoviesRow
    \/ Quit

SpecMovies == Init /\ [][NextMovies]_vars

\* cli_try_movies_and_ratings: a known-good movies file, one path at the
\* ratings prompt, then 'q'; over all the ratings files
NextRatings ==
    \/ FirstMoviesPrompt /\ \E f \in BaselineMovieFiles : EnterMoviesPath(f)
    \/ MoviesRow
    \/ FirstRatingsPrompt /\ \E f \in RatingFiles : EnterRatingsPath(f)
    \/ RatingsRow
    \/ Quit

SpecRatings == Init /\ [][NextRatings]_vars

\* one load of the catalog of the statistics and of a ratings file over it,
\* then the listing features of the menu
NextStats ==
    \/ FirstMoviesPrompt /\ \E f \in StatMovieFiles : EnterMoviesPath(f)
    \/ MoviesRow
    \/ FirstRatingsPrompt /\ \E f \in StatRatingFiles : EnterRatingsPath(f)
    \/ RatingsRow
    \/ MoviePopularity
    \/ \E idx \in 1..Cardinality(DOMAIN GENRES) : MoviePopularityInGenre(idx)
    \/ \E uid \in DOMAIN RATINGS_BY_USER : RecommendMovies(uid)

SpecStats == Init /\ [][NextStats]_vars

(***************************************************************************)
(* The two loads as functions of a file, into an empty model.               *)
(***************************************************************************)
RECURSIVE LoadMoviesFrom(_, _, _, _), LoadMoviesNext(_, _, _)
\* the loop of load_movies_file from row k on
LoadMoviesFrom(cat, c2id, rows, k) ==
    IF k > Len(rows) THEN [err |-> NoError, cat |-> cat]
    ELSE LoadMoviesNext(load_movies_row(cat, c2id, rows[k]), rows, k)

LoadMoviesNext(r, rows, k) ==
    IF r.err # "none" THEN [err |-> LoadError(r.err, k), cat |-> r.cat]
    ELSE LoadMoviesFrom(r.cat, r.concept_to_id, rows, k + 1)

\* load_movies_file on an empty catalog: the error raised and the catalog
load_movies_file(f) ==
    IF ~f.exists
    THEN [err |-> LoadError("Movies file does not exist.", 0), cat |-> EmptyCatalog]
    ELSE IF NonBlankLines(f.text) = <<>>
    THEN [err |-> LoadError("Movies file is empty.", 0), cat |-> EmptyCatalog]
    ELSE LoadMoviesFrom(EmptyCatalog, <<>>, NonBlankLines(f.text), 1)

RECURSIVE LoadRatingsFrom(_, _, _, _, _), LoadRatingsNext(_, _, _, _)
\* the loop of load_ratings_file from row k on
LoadRatingsFrom(by_name, rat, seen, rows, k) ==
    IF k > Len(rows) THEN [err |-> NoError, rat |-> rat]
    ELSE LoadRatingsNext(by_name, load_ratings_row(by_name, rat, seen, rows[k]),
                         rows, k)

LoadRatingsNext(by_name, r, rows, k) ==
    IF r.err # "none" THEN [err |-> LoadError(r.err, k), rat |-> r.rat]
    ELSE LoadRatingsFrom(by_name, r.rat, r.seen, rows, k + 1)

\* load_ratings_file on empty ratings indexes: the error raised and the
\* indexes
load_ratings_file(by_name, f) ==
    IF ~f.exists
    THEN [err |-> LoadError("Ratings file does not exist.", 0), rat |-> EmptyRatings]
    ELSE IF NonBlankLines(f.text) = <<>>
    THEN [err |-> LoadError("Ratings file is empty.", 0), rat |-> EmptyRatings]
    ELSE LoadRatingsFrom(by_name, EmptyRatings, {}, NonBlankLines(f.text), 1)

(***************************************************************************)
(* Properties.                                                              *)
(***************************************************************************)
\* the rows of the movies file last entered, and of the ratings file
MovieRows == NonBlankLines(movies_path.text)
RatingRows == NonBlankLines(ratings_path.text)

\* the latest movies load raised a LoadError and the loader is back at the
\* movies prompt
MoviesLoadAborted == pc = "movies_prompt" /\ raised # NoError

\* C1: after a movies load aborts, no catalog state of the aborted file is
\* visible: MOVIES_BY_NAME, MOVIES_BY_ID, GENRES and GENRE_ORIGINAL_CASE are
\* empty.  (Stated as the claim has it; the code leaves the rows before the
\* offending one in place.)
C1_AbortLeavesNoCatalog ==
    MoviesLoadAborted =>
        /\ MOVIES_BY_NAME = <<>> /\ MOVIES_BY_ID = <<>>
        /\ GENRES = <<>> /\ GENRE_ORIGINAL_CASE = <<>>

\* the model that loading the two files into an empty model produces
FreshModel(mf, rf) ==
    LET m == load_movies_file(mf)
        r == load_ratings_file(m.cat.MOVIES_BY_NAME, rf)
    IN  [ok |-> m.err = NoError /\ r.err = NoError,
         globals |-> m.cat @@ r.rat @@ ComputeAll(m.cat, r.rat)]

\* C2: whenever load_all_with_prompt has returned, the catalog, the ratings
\* indexes and the statistics are exactly those of loading the last-entered
\* movies file and then the last-entered ratings file into an empty model.
C2_ReturnedModelIsFreshLoad ==
    pc = "menu" =>
        /\ FreshModel(movies_path, ratings_path).ok
        /\ Globals = FreshModel(movies_path, ratings_path).globals

\* C2 witness: the loader returned with ratings after a failed movies
\* attempt, a failed ratings attempt and a reload
C2_Witness ==
    /\ pc = "menu"
    /\ journal = {"movies_error", "ratings_error", "reload"}
    /\ Len(MOVIES_BY_NAME) = 2
    /\ USER_IDS # <<>>

\* the number in the file of its k-th line that is not blank
FileLineOf(text, k) ==
    Least({n \in 1..Len(text) :
              /\ ~IsBlankLine(text[n])
              /\ Cardinality({m \in 1..n : ~IsBlankLine(text[m])}) = k})

\* C3: whenever a row makes a load abort, the line number of the LoadError
\* is the 1-based number of that row in the file, blank lines before it
\* counted.  (Stated as the claim has it; the code numbers the rows after
\* the blank lines are dropped.)
C3_ErrorLineIsFileLine ==
    [][/\ (pc = "movies_loop" /\ raised'.msg # "none")
            => raised'.line = FileLineOf(movies_path.text, i)
       /\ (pc = "ratings_loop" /\ raised'.msg # "none")
            => raised'.line = FileLineOf(ratings_path.text, i)]_vars

\* C4: after a successful movies load no two canonical records of
\* MOVIES_BY_NAME have the same movie_id.  (Stated as the claim has it; two
\* rows of one id and one concept that differ in inner whitespace make two
\* records.)
C4_CanonicalIdsUnique ==
    pc = "ratings_prompt" =>
        \A a, b \in 1..Len(MOVIES_BY_NAME) :
            MOVIES_BY_NAME[a].movie_id = MOVIES_BY_NAME[b].movie_id => a = b

\* the rows of the movies file the loop has accepted so far
AcceptedMovieRows ==
    IF pc = "movies_loop" THEN SubSeq(lines, 1, i - 1)
    ELSE IF pc = "ratings_prompt" THEN MovieRows
    ELSE <<>>

\* the id and the concept key of an accepted row
RowId(row) == _parse_movies_line(row).movie_id
RowKey(row) == _concept_key(_parse_movies_line(row).movie_name)

\* C5: over the rows a movies load has accepted, ids and concept keys are
\* one-to-one: two accepted rows have the same id exactly when they have the
\* same concept key, however many rows lie between them; a row that would
\* break this is never accepted, the file aborts on it.
C5_IdsAndConceptsOneToOne ==
    \A a, b \in 1..Len(AcceptedMovieRows) :
        RowId(AcceptedMovieRows[a]) = RowId(AcceptedMovieRows[b])
            <=> RowKey(AcceptedMovieRows[a]) = RowKey(AcceptedMovieRows[b])

\* C5 witness: the third row reuses the id of the first for another concept,
\* with a row between them, and the file aborts on it
C5_Witness ==
    /\ pc = "movies_prompt"
    /\ raised = LoadError("movie_id reused for a different movie", 3)
    /\ Len(MOVIES_BY_NAME) = 1

\* the display name and the genre of an accepted row
RowName(row) == _parse_movies_line(row).movie_name
RowGenre(row) == _parse_movies_line(row).genre

\* two names are display-equivalent: same length, equal ignoring case
DisplayEquivalent(a, b) ==
    Len(a) = Len(b) /\ \A k \in 1..Len(a) : LowerChar(a[k]) = LowerChar(b[k])

\* the first of the rows up to the a-th whose name is display-equivalent to
\* the name of the a-th
FirstEquivalentRow(rows, a) ==
    Least({b \in 1..a : DisplayEquivalent(RowName(rows[b]), RowName(rows[a]))})

\* the places of the canonical records display-equivalent to a name
RecordsFor(name) ==
    {k \in 1..Len(MOVIES_BY_NAME) : DisplayEquivalent(MOVIES_BY_NAME[k].name, name)}

\* while a movies load runs and once it has succeeded, every accepted row
\* has exactly one canonical record, with the display
\* name and the genre of the first row equivalent to it and with its id, and
\* there are as many records as classes of equivalent rows
MergedRecords ==
    pc \in {"movies_loop", "ratings_prompt"} =>
    LET rows == AcceptedMovieRows
    IN  /\ Len(MOVIES_BY_NAME)
              = Cardinality({FirstEquivalentRow(rows, a) : a \in 1..Len(rows)})
        /\ \A a \in 1..Len(rows) :
              \E k \in 1..Len(MOVIES_BY_NAME) :
                  /\ RecordsFor(RowName(rows[a])) = {k}
                  /\ MOVIES_BY_NAME[k].name
                         = RowName(rows[FirstEquivalentRow(rows, a)])
                  /\ MOVIES_BY_NAME[k].genre_original
                         = RowGenre(rows[FirstEquivalentRow(rows, a)])
                  /\ MOVIES_BY_NAME[k].movie_id = RowId(rows[a])

\* the accepted rows display-equivalent to the row the loop is at
EquivalentBefore ==
    {b \in 1..(i - 1) : DisplayEquivalent(RowName(lines[b]), RowName(lines[i]))}

\* a step of the loop on a well-formed row equivalent to an accepted one:
\* with another id the file aborts, with the same id the row is accepted
\* and the canonical records stay as they are
EquivalentRowStep ==
    (/\ pc = "movies_loop"
     /\ _parse_movies_line(lines[i]).err = "none"
     /\ EquivalentBefore # {})
    => IF \E b \in EquivalentBefore : RowId(lines[b]) # RowId(lines[i])
       THEN pc' = "movies_prompt" /\ raised' # NoError
       ELSE /\ raised' = NoError
            /\ pc' \in {"movies_loop", "ratings_prompt"}
            /\ MOVIES_BY_NAME' = MOVIES_BY_NAME

\* C6: rows with display-equivalent names and the same id merge into one
\* canonical record that keeps the display name and the genre of the first
\* such row; a later equivalent row changes neither the record nor the
\* number of records, and an equivalent row with a different id aborts the
\* file.
C6_EquivalentRowsMerge == []MergedRecords /\ [][EquivalentRowStep]_vars

\* C6 witness: 'Co|1|Up (2009)' then 'Dr|1|UP (2009)' loaded into the one
\* record of the first row
C6_Witness ==
    /\ pc = "ratings_prompt"
    /\ Len(MovieRows) >= 2
    /\ RowName(MovieRows[1]) = UpA /\ RowGenre(MovieRows[1]) = Co
    /\ RowName(MovieRows[2]) = UpB /\ RowGenre(MovieRows[2]) = Dr
    /\ Len(MOVIES_BY_NAME) = 1
    /\ MOVIES_BY_NAME[1].name = UpA /\ MOVIES_BY_NAME[1].genre_original = Co

\* a parsed ratings row is in range: a number from 0 to 5
RowInRange(p) == p.rating.cls = "num" /\ 0 <= p.rating.tenths /\ p.rating.tenths <= 50

\* the rows of the ratings file last entered that give user u a rating in
\* range for the canonical movie m, under any display-equivalent name
RowsRating(u, m) ==
    {k \in 1..Len(RatingRows) :
        /\ _parse_ratings_line(RatingRows[k]).err = "none"
        /\ _parse_ratings_line(RatingRows[k]).user_id = u
        /\ RowInRange(_parse_ratings_line(RatingRows[k]))
        /\ DisplayEquivalent(_parse_ratings_line(RatingRows[k]).movie_name, m)}

\* the user ids of the rows of the ratings file and of the two indexes
RatingUsers ==
    {_parse_ratings_line(RatingRows[k]).user_id : k \in 1..Len(RatingRows)}
        \cup DOMAIN RATINGS_BY_USER
        \cup UNION {{RATINGS_BY_MOVIE[m][k][1] : k \in 1..Len(RATINGS_BY_MOVIE[m])} :
                       m \in DOMAIN RATINGS_BY_MOVIE}

\* the places of user u in the list of movie m in RATINGS_BY_MOVIE
EntriesOf(u, m) ==
    IF m \in DOMAIN RATINGS_BY_MOVIE
    THEN {k \in 1..Len(RATINGS_BY_MOVIE[m]) : RATINGS_BY_MOVIE[m][k][1] = u}
    ELSE {}

\* user u has an entry for movie m in RATINGS_BY_USER
UserHas(u, m) == u \in DOMAIN RATINGS_BY_USER /\ m \in DOMAIN RATINGS_BY_USER[u]

\* the rating of the row of the ratings file at place k, in tenths
RowTenths(k) == _parse_ratings_line(RatingRows[k]).rating.tenths

\* C7: after a successful ratings load there is at most one retained rating
\* per (user, canonical movie) pair, in RATINGS_BY_MOVIE and in
\* RATINGS_BY_USER, and its value is that of the first row in file order
\* that rates the movie for the user (a row in range, naming the movie in any
\* letter case); the later rows for the pair leave no trace.
C7_FirstRatingWins ==
    pc = "menu" =>
        /\ DOMAIN RATINGS_BY_MOVIE \subseteq NameKeys(MOVIES_BY_NAME)
        /\ \A u \in RatingUsers : \A m \in NameKeys(MOVIES_BY_NAME) :
              IF RowsRating(u, m) = {}
              THEN EntriesOf(u, m) = {} /\ ~UserHas(u, m)
              ELSE /\ Cardinality(EntriesOf(u, m)) = 1
                   /\ \A k \in EntriesOf(u, m) :
                         RATINGS_BY_MOVIE[m][k][2] = RowTenths(Least(RowsRating(u, m)))
                   /\ UserHas(u, m)
                   /\ RATINGS_BY_USER[u][m] = RowTenths(Least(RowsRating(u, m)))
        /\ \A u \in DOMAIN RATINGS_BY_USER :
              DOMAIN RATINGS_BY_USER[u] \subseteq NameKeys(MOVIES_BY_NAME)

\* C7 witness: 'Up (2009)|4|7', 'UP (2009)|5|7', 'Up (2009)|1|7' loaded, and
\* user 7 holds the 4 of the first row
C7_Witness ==
    /\ pc = "menu"
    /\ RatingRows = << <<UpA, <<"4">>, <<"7">>>>, <<UpB, <<"5">>, <<"7">>>>,
                       <<UpA, <<"1">>, <<"7">>>> >>
    /\ RATINGS_BY_MOVIE = (UpA :> << <<7, 40>> >>)
    /\ RATINGS_BY_USER = (7 :> (UpA :> 40))

\* the row the ratings loop is at, parsed
RatingRowAt == _parse_ratings_line(lines[i])

\* the ratings loop is at a well-formed row with a non-negative user id whose
\* value is outside [0, 5] or whose movie name resolves to no catalog entry
AtSkippedRow ==
    /\ pc = "ratings_loop"
    /\ RatingRowAt.err = "none"
    /\ RatingRowAt.user_id >= 0
    /\ (~RowInRange(RatingRowAt) \/ RecordsFor(RatingRowAt.movie_name) = {})

\* a step on such a row raises nothing, leaves the two indexes and the
\* seen-set as they are and goes on to the next row, or returns after the
\* last one
SkippedRowStep ==
    AtSkippedRow =>
        /\ raised' = NoError
        /\ RATINGS_BY_MOVIE' = RATINGS_BY_MOVIE
        /\ RATINGS_BY_USER' = RATINGS_BY_USER
        /\ IF i < Len(lines)
           THEN /\ pc' = "ratings_loop" /\ i' = i + 1 /\ lines' = lines
                /\ seen_user_movie' = seen_user_movie
           ELSE pc' = "menu"

\* the ratings loop is at a well-formed row with a non-negative user id, the
\* value 0 or 5 and a movie name of the catalog
AtBoundaryRow ==
    /\ pc = "ratings_loop"
    /\ RatingRowAt.err = "none"
    /\ RatingRowAt.user_id >= 0
    /\ RatingRowAt.rating.cls = "num"
    /\ RatingRowAt.rating.tenths \in {0, 50}
    /\ RecordsFor(RatingRowAt.movie_name) # {}

\* the canonical movie of the row the ratings loop is at
MovieAt == MOVIES_BY_NAME[Least(RecordsFor(RatingRowAt.movie_name))].name

\* a step on such a row raises nothing and the user has a rating of the
\* movie after it: the value of the row, unless the pair was rated before
BoundaryRowStep ==
    AtBoundaryRow =>
        /\ raised' = NoError
        /\ RatingRowAt.user_id \in DOMAIN RATINGS_BY_USER'
        /\ MovieAt \in DOMAIN RATINGS_BY_USER'[RatingRowAt.user_id]
        /\ <<RatingRowAt.user_id, MovieAt>> \notin seen_user_movie
              => /\ RATINGS_BY_USER'[RatingRowAt.user_id][MovieAt]
                        = RatingRowAt.rating.tenths
                 /\ RATINGS_BY_MOVIE'[MovieAt]
                        = Append(IF MovieAt \in DOMAIN RATINGS_BY_MOVIE
                                 THEN RATINGS_BY_MOVIE[MovieAt] ELSE <<>>,
                                 <<RatingRowAt.user_id, RatingRowAt.rating.tenths>>)

\* C8: a well-formed ratings row with a non-negative user id whose value is
\* outside [0, 5] or whose movie is not in the catalog is skipped without
\* aborting: the step leaves RATINGS_BY_MOVIE, RATINGS_BY_USER and the
\* seen-set unchanged and the loop goes on (to the next row, or to a
\* successful return after the last); rows with the values 0 and 5 are
\* retained.
C8_SkippedRowsLeaveNoTrace == [][SkippedRowStep /\ BoundaryRowStep]_vars

\* C8 witness: 'UP (2009)|5|7', 'Up (2009)|7.5|7', 'Up  (2009)|3|7' loaded:
\* the 5 is retained, the 7.5 and the unknown name are skipped
C8_Witness ==
    /\ pc = "menu"
    /\ RatingRows = << <<UpB, <<"5">>, <<"7">>>>,
                       <<UpA, <<"7", ".", "5">>, <<"7">>>>,
                       <<UpW, <<"3">>, <<"7">>>> >>
    /\ RATINGS_BY_USER = (7 :> (UpA :> 50))
    /\ USER_IDS = <<7>>

\* the third field of a row of three fields is a negative integer
HasNegativeUserId(row) ==
    /\ Len(row) = 3
    /\ IntParses(Strip(row[3]))
    /\ IntValue(Strip(row[3])) < 0

\* a step on a well-formed row with a negative user id raises the LoadError
\* of line 323, whatever the value and the movie name of the row
NegativeUserIdStep ==
    (pc = "ratings_loop" /\ RatingRowAt.err = "none" /\ RatingRowAt.user_id < 0)
        => /\ raised' = LoadError("user_id cannot be negative", i)
           /\ pc' = "ratings_prompt"

\* C9: a negative user id anywhere in a ratings file aborts the load, also
\* on a row that has an out-of-range rating or an unknown movie name: no
\* file with such a row loads, and the step on such a row raises.
C9_NegativeUserIdAborts ==
    /\ [](pc = "menu" =>
             \A k \in 1..Len(RatingRows) : ~HasNegativeUserId(RatingRows[k]))
    /\ [][NegativeUserIdStep]_vars

\* C9 witness: the load aborted on 'Up  (2009)|7.5|-1', a row out of range
\* and of an unknown movie, at the second place
C9_Witness ==
    /\ pc = "ratings_prompt"
    /\ raised = LoadError("user_id cannot be negative", 2)
    /\ Len(RatingRows) >= 2
    /\ RatingRows[2] = <<UpW, <<"7", ".", "5">>, <<"-", "1">>>>

\* the row has three fields, none empty once stripped
ThreeFields(row) ==
    Len(row) = 3 /\ \A k \in 1..3 : Strip(row[k]) # <<>>

\* a step on a row whose rating field reads as NaN or an infinity raises
\* 'rating must be finite'; a step on a row with a finite rating whose user
\* id field is no integer raises 'user_id is not an integer'
MalformedNumberStep ==
    (pc = "ratings_loop" /\ ThreeFields(lines[i])
        /\ FloatParses(Strip(lines[i][2])))
    => /\ FloatValue(Strip(lines[i][2])).cls # "num"
            => /\ raised' = LoadError("rating must be finite", i)
               /\ pc' = "ratings_prompt"
       /\ (FloatValue(Strip(lines[i][2])).cls = "num"
              /\ ~IntParses(Strip(lines[i][3])))
            => /\ raised' = LoadError("user_id is not an integer", i)
               /\ pc' = "ratings_prompt"

\* C10: a ratings row whose rating is NaN or infinite aborts the file as a
\* malformed row and is never skipped as out of range; a ratings row whose
\* user id is not an integer (as "3.5") aborts the file.
C10_NonFiniteAndNonIntegerAbort == [][MalformedNumberStep]_vars

\* C10 witness: the load aborted on 'Up (2009)|-inf|7' at the second place
C10_Witness ==
    /\ pc = "ratings_prompt"
    /\ raised = LoadError("rating must be finite", 2)
    /\ Len(RatingRows) >= 2
    /\ RatingRows[2] = <<UpA, <<"-", "i", "n", "f">>, <<"7">>>>

(***************************************************************************)
(* Statistics.                                                              *)
(***************************************************************************)
\* the movies of the set of genre g that have statistics
GenreRated(g) == {m \in GENRES[g] : m \in DOMAIN MOVIE_STATS}

\* the ways to put the elements of a finite set in a row
Orderings(S) ==
    {q \in [1..Cardinality(S) -> S] :
        \A a, b \in 1..Cardinality(S) : a # b => q[a] # q[b]}

\* the ratings counted by the statistics of the movies of S
RECURSIVE CountsOf(_)
CountsOf(S) ==
    IF S = {} THEN 0
    ELSE MOVIE_STATS[CHOOSE m \in S : TRUE].count
         + CountsOf(S \ {CHOOSE m \in S : TRUE})

\* the float mean of the averages of the movies in the row q
MeanOfAverages(q) == FDiv(FSum([k \in 1..Len(q) |-> MOVIE_STATS[q[k]].avg]), Len(q))

\* C11: once the statistics are computed, a genre has an entry in
\* GENRE_STATS exactly when a movie of its set has one in MOVIE_STATS; its
\* avg_of_movie_avgs is the mean of the averages of those movies, each movie
\* counted once, and its total_ratings the sum of their counts
C11_GenreStatsOverRatedMovies ==
    pc = "menu" =>
        /\ DOMAIN GENRE_STATS = {g \in DOMAIN GENRES : GenreRated(g) # {}}
        /\ \A g \in DOMAIN GENRE_STATS :
            /\ \E q \in Orderings(GenreRated(g)) :
                   GENRE_STATS[g].avg_of_movie_avgs = MeanOfAverages(q)
            /\ GENRE_STATS[g].total_ratings = CountsOf(GenreRated(g))

\* a genre whose rated movies differ in average and in count, beside a
\* genre none of whose movies is rated
C11_Witness ==
    /\ pc = "menu"
    /\ DOMAIN GENRES # DOMAIN GENRE_STATS
    /\ \E g \in DOMAIN GENRE_STATS : \E m, n \in GenreRated(g) :
           /\ MOVIE_STATS[m].count > MOVIE_STATS[n].count
           /\ MOVIE_STATS[m].avg # MOVIE_STATS[n].avg

\* the movies user u rated in genre g
RatedInGenre(u, g) ==
    {m \in DOMAIN RATINGS_BY_USER[u] :
        m \in NameKeys(MOVIES_BY_NAME) /\ GenreOf(MOVIES_BY_NAME, m) = g}

\* The model takes the movies of a set, and the movies a user rated, in one
\* fixed order, and adds a list of ratings from left to right.  Over the
\* files of the model no other order gives another sum: a list of ratings
\* has at most two entries, and the sums of more terms are exact.
SumsOrderFree ==
    pc = "menu" =>
        /\ \A m \in DOMAIN RATINGS_BY_MOVIE : Len(RATINGS_BY_MOVIE[m]) <= 2
        /\ \A g \in DOMAIN GENRE_STATS : \A q \in Orderings(GenreRated(g)) :
               GENRE_STATS[g].avg_of_movie_avgs = MeanOfAverages(q)
        /\ \A u \in DOMAIN RATINGS_BY_USER : \A g \in DOMAIN GENRES :
               \A p, q \in Orderings(RatedInGenre(u, g)) :
                   FSum([k \in 1..Len(p) |-> FloatOfTenths(RATINGS_BY_USER[u][p[k]])])
                   = FSum([k \in 1..Len(q) |-> FloatOfTenths(RATINGS_BY_USER[u][q[k]])])

\* the genres in which user u has rated a movie
UserGenres(u) == {g \in DOMAIN GENRES : RatedInGenre(u, g) # {}}

\* the ratings of user u for the movies of S, added up in tenths
RECURSIVE TenthsOf(_, _)
TenthsOf(u, S) ==
    IF S = {} THEN 0
    ELSE RATINGS_BY_USER[u][CHOOSE m \in S : TRUE]
         + TenthsOf(u, S \ {CHOOSE m \in S : TRUE})

\* genre g comes before genre h in the ordered key of user u: the higher
\* average of the user's ratings, then the higher count, then the display
\* name first in A-Z order without regard to case.  The averages are
\* compared as the numbers they are: a / c > b / d exactly when a * d > b * c.
KeyBefore(u, g, h) ==
    \/ TenthsOf(u, RatedInGenre(u, g)) * Cardinality(RatedInGenre(u, h))
       > TenthsOf(u, RatedInGenre(u, h)) * Cardinality(RatedInGenre(u, g))
    \/ /\ TenthsOf(u, RatedInGenre(u, g)) * Cardinality(RatedInGenre(u, h))
          = TenthsOf(u, RatedInGenre(u, h)) * Cardinality(RatedInGenre(u, g))
       /\ \/ Cardinality(RatedInGenre(u, g)) > Cardinality(RatedInGenre(u, h))
          \/ /\ Cardinality(RatedInGenre(u, g)) = Cardinality(RatedInGenre(u, h))
             /\ StrLess(Lower(Get(GENRE_ORIGINAL_CASE, g, g)),
                        Lower(Get(GENRE_ORIGINAL_CASE, h, h)))

\* C12: once the statistics are computed, USER_TOP_GENRE holds for every
\* user with retained ratings one genre the user rated, the first one by the
\* ordered key (average, then count, then display name): the count decides
\* only between genres of equal average
C12_TopGenreIsFirstByOrderedKey ==
    pc = "menu" =>
        \A u \in DOMAIN RATINGS_BY_USER :
            /\ u \in DOMAIN USER_TOP_GENRE
            /\ USER_TOP_GENRE[u].genre \in UserGenres(u)
            /\ \A h \in UserGenres(u) \ {USER_TOP_GENRE[u].genre} :
                   KeyBefore(u, USER_TOP_GENRE[u].genre, h)

(***************************************************************************)
(* Rankings and recommendations.                                            *)
(***************************************************************************)
\* the statistics a movie is ranked by: those of MOVIE_STATS, or average 0
\* and count 0 for a movie without ratings
RankStats(m) ==
    IF m \in DOMAIN MOVIE_STATS THEN MOVIE_STATS[m]
    ELSE [avg |-> <<0, 0, 0>>, count |-> 0]

\* movie m ranks before movie n: higher average, then higher count, then
\* the name first in A-Z order without regard to case, then the lower id
RanksBefore(m, n) ==
    \/ FLess(RankStats(n).avg, RankStats(m).avg)
    \/ /\ RankStats(n).avg = RankStats(m).avg
       /\ \/ RankStats(m).count > RankStats(n).count
          \/ /\ RankStats(m).count = RankStats(n).count
             /\ \/ StrLess(Lower(m), Lower(n))
                \/ /\ Lower(m) = Lower(n)
                   /\ RecordOf(MOVIES_BY_NAME, m).movie_id
                      < RecordOf(MOVIES_BY_NAME, n).movie_id

\* the elements of a list
Elements(q) == {q[k] : k \in 1..Len(q)}

\* the movies of the top genre of user u that the user has not rated
UnseenOfTopGenre(u) ==
    GENRES[USER_TOP_GENRE[u].genre] \ DOMAIN RATINGS_BY_USER[u]

\* C13: what feature_recommend_movies lists for a user is at most three
\* movies of the set of the user's top genre that the user has not rated,
\* in ranking order, and every unseen movie of the genre left out ranks
\* behind all three
C13_RecommendsBestUnseenOfTopGenre ==
    output.feature = "recommend_movies" =>
        /\ Len(output.list) <= 3
        /\ Elements(output.list) \subseteq UnseenOfTopGenre(output.arg)
        /\ \A j, k \in 1..Len(output.list) :
               j < k => RanksBefore(output.list[j], output.list[k])
        /\ \A m \in UnseenOfTopGenre(output.arg) \ Elements(output.list) :
               /\ Len(output.list) = 3
               /\ \A k \in 1..3 : RanksBefore(output.list[k], m)

\* three movies are recommended, a fourth unseen one is left out, and a
\* movie the user rated ranks before all of them
C13_Witness ==
    /\ output.feature = "recommend_movies"
    /\ Len(output.list) = 3
    /\ UnseenOfTopGenre(output.arg) \ Elements(output.list) # {}
    /\ \E m \in GENRES[USER_TOP_GENRE[output.arg].genre] :
           /\ m \in DOMAIN RATINGS_BY_USER[output.arg]
           /\ RanksBefore(m, output.list[1])
    /\ \E k \in 1..3 : output.list[k] \in DOMAIN MOVIE_STATS

\* the list q holds each movie of S once, and no movie of the list ranks
\* before the one listed ahead of it
RankedListOf(q, S) ==
    /\ Elements(q) = S
    /\ Len(q) = Cardinality(S)
    /\ \A k \in 1..(Len(q) - 1) :
           RanksBefore(q[k], q[k + 1]) /\ ~RanksBefore(q[k + 1], q[k])

\* C14: feature_movie_popularity lists every movie of the catalog, and
\* feature_movie_popularity_in_genre every movie of the chosen genre, ordered
\* by average desc, then count desc, then name asc without regard to case,
\* then id asc, a movie without statistics ranked with average 0 and count 0
C14_ListsAreInRankingOrder ==
    /\ output.feature = "movie_popularity" =>
           RankedListOf(output.list, NameKeys(MOVIES_BY_NAME))
    /\ output.feature = "movie_popularity_in_genre" =>
           RankedListOf(output.list, GENRES[output.genre])

\* a list of all movies in which the count decides one adjacent pair, with a
\* movie without statistics behind a rated one of average 0, and the name
\* decides another against the order of the code points
C14_Witness ==
    /\ output.feature = "movie_popularity"
    /\ \E k \in 1..(Len(output.list) - 1) :
           /\ output.list[k] \in DOMAIN MOVIE_STATS
           /\ output.list[k + 1] \notin DOMAIN MOVIE_STATS
           /\ MOVIE_STATS[output.list[k]].avg = <<0, 0, 0>>
    /\ \E k \in 1..(Len(output.list) - 1) :
           /\ RankStats(output.list[k]) = RankStats(output.list[k + 1])
           /\ output.list[k] \in DOMAIN MOVIE_STATS
           /\ StrLess(output.list[k + 1], output.list[k])

\* the users that have a retained rating of movie m
RatersOf(m) == {u \in DOMAIN RATINGS_BY_USER : m \in DOMAIN RATINGS_BY_USER[u]}

\* the float mean of the ratings of a list of (user, rating), in its order
MeanOfRatings(lst) ==
    FDiv(FSum([k \in 1..Len(lst) |-> FloatOfTenths(lst[k][2])]), Len(lst))

\* C17: once the statistics are computed, a canonical movie has an entry in
\* MOVIE_STATS exactly when it has a retained rating; the count of the entry
\* is the number of its retained ratings, one per user that rated it, and the
\* average their sum divided by the count, which is at most 5; a movie
\* without a retained rating has no entry
C17_MovieStatsOverRetainedRatings ==
    pc = "menu" =>
        /\ DOMAIN MOVIE_STATS \subseteq NameKeys(MOVIES_BY_NAME)
        /\ \A m \in NameKeys(MOVIES_BY_NAME) :
               IF RatersOf(m) = {}
               THEN m \notin DOMAIN MOVIE_STATS
               ELSE /\ m \in DOMAIN MOVIE_STATS
                    /\ MOVIE_STATS[m].count = Cardinality(RatersOf(m))
                    /\ MOVIE_STATS[m].count = Len(RATINGS_BY_MOVIE[m])
                    /\ MOVIE_STATS[m].count >= 1
                    /\ MOVIE_STATS[m].avg = MeanOfRatings(RATINGS_BY_MOVIE[m])
                    /\ ~FLess(FloatOfTenths(50), MOVIE_STATS[m].avg)

\* a movie with two retained ratings of different value, beside a movie of
\* the catalog whose only row was skipped and that has no entry
C17_Witness ==
    /\ pc = "menu"
    /\ \E m \in DOMAIN MOVIE_STATS :
           /\ MOVIE_STATS[m].count = 2
           /\ RATINGS_BY_MOVIE[m][1][2] # RATINGS_BY_MOVIE[m][2][2]
    /\ \E n \in NameKeys(MOVIES_BY_NAME) \ DOMAIN MOVIE_STATS :
           \E k \in 1..Len(RatingRows) :
               DisplayEquivalent(_parse_ratings_line(RatingRows[k]).movie_name, n)

(***************************************************************************)
(* Aborted ratings loads.                                                   *)
(***************************************************************************)
\* the latest ratings load raised a LoadError and the loader is back at the
\* ratings prompt
RatingsLoadAborted == pc = "ratings_prompt" /\ raised # NoError

\* C15: when a ratings load aborts after a successful movies load, then at
\* the next ratings prompt RATINGS_BY_MOVIE, RATINGS_BY_USER, USER_IDS,
\* MOVIE_STATS, GENRE_STATS and USER_TOP_GENRE are empty and the catalog is
\* the one the movies load produced
C15_AbortedRatingsLoadLeavesCatalogOnly ==
    RatingsLoadAborted =>
        /\ RATINGS_BY_MOVIE = <<>> /\ RATINGS_BY_USER = <<>>
        /\ USER_IDS = <<>> /\ MOVIE_STATS = <<>>
        /\ GENRE_STATS = <<>> /\ USER_TOP_GENRE = <<>>
        /\ load_movies_file(movies_path).err = NoError
        /\ Catalog = load_movies_file(movies_path).cat
        /\ Catalog # EmptyCatalog

\* a ratings load that aborted at a row behind a row that rates a movie of
\* the catalog
C15_Witness ==
    /\ RatingsLoadAborted
    /\ raised.line >= 2
    /\ \E u \in RatingUsers : \E m \in NameKeys(MOVIES_BY_NAME) :
           \E k \in RowsRating(u, m) : k < raised.line

\* the row breaks the ratings file: it is malformed, or well-formed with a
\* negative user id
FileLevelViolation(row) ==
    \/ _parse_ratings_line(row).err # "none"
    \/ _parse_ratings_line(row).user_id < 0

\* the message of the LoadError such a row raises
ViolationMessage(row) ==
    IF _parse_ratings_line(row).err # "none" THEN _parse_ratings_line(row).err
    ELSE "user_id cannot be negative"

\* the places of the rows of the ratings file last entered that break it
ViolatingRows == {k \in 1..Len(RatingRows) : FileLevelViolation(RatingRows[k])}

\* a step of the ratings loop on a row that breaks the file raises the
\* LoadError of that row and ends the loop; a step on any other row, skipped
\* or recorded, raises nothing
ViolatingRowStep ==
    pc = "ratings_loop" =>
        IF FileLevelViolation(lines[i])
        THEN /\ raised' = LoadError(ViolationMessage(lines[i]), i)
             /\ pc' = "ratings_prompt"
             /\ lines' = <<>> /\ i' = 0
        ELSE /\ raised' = NoError
             /\ pc' \in {"ratings_loop", "menu"}

SameConceptOnly(name, m) ==
    /\ YearReMatches(name)
    /\ _concept_key(name) = _concept_key(m)
    /\ ~DisplayEquivalent(name, m)

\* C18: a ratings row resolves to a canonical movie only by
\* display-equivalence of its name: after a successful load every retained
\* rating is kept under a canonical name that an in-range row of its user
\* spells up to letter case, a row that differs from the canonical name only
\* in letter case is recorded under the canonical name, and a row of the
\* same concept with other whitespace leaves nothing
C18_ResolvesByDisplayEquivalenceOnly ==
    pc = "menu" =>
        /\ DOMAIN RATINGS_BY_MOVIE \subseteq NameKeys(MOVIES_BY_NAME)
        /\ \A u \in DOMAIN RATINGS_BY_USER :
               /\ DOMAIN RATINGS_BY_USER[u] \subseteq NameKeys(MOVIES_BY_NAME)
               /\ \A m \in DOMAIN RATINGS_BY_USER[u] : RowsRating(u, m) # {}
        /\ \A k \in 1..Len(RatingRows) : \A m \in NameKeys(MOVIES_BY_NAME) :
               (/\ RowInRange(_parse_ratings_line(RatingRows[k]))
                /\ DisplayEquivalent(_parse_ratings_line(RatingRows[k]).movie_name, m))
               => UserHas(_parse_ratings_line(RatingRows[k]).user_id, m)

\* a row of the concept of a canonical movie with other whitespace, then a
\* row of the same user that differs from the canonical name only in letter
\* case: the rating of the second row is retained under the canonical name
C18_Witness ==
    /\ pc = "menu"
    /\ \E k, j \in 1..Len(RatingRows) : \E m \in NameKeys(MOVIES_BY_NAME) :
           /\ k < j
           /\ RowInRange(_parse_ratings_line(RatingRows[k]))
           /\ SameConceptOnly(_parse_ratings_line(RatingRows[k]).movie_name, m)
           /\ _parse_ratings_line(RatingRows[j]).movie_name # m
           /\ RowsRating(_parse_ratings_line(RatingRows[k]).user_id, m) = {j}
           /\ RowTenths(j) # RowTenths(k)
           /\ RATINGS_BY_USER[_parse_ratings_line(RatingRows[k]).user_id][m] = RowTenths(j)

\* the (user, canonical movie) pairs that the rows ahead of the n-th rate in
\* range
PairsRatedBefore(n) ==
    {<<u, m>> \in RatingUsers \X NameKeys(MOVIES_BY_NAME) :
        \E k \in RowsRating(u, m) : k < n}

\* a step of the ratings loop on a row that is skipped leaves the seen-set
\* as it is
SkipKeepsSeenStep ==
    (AtSkippedRow /\ pc' = "ratings_loop") => seen_user_movie' = seen_user_movie

\* C19: a skipped row does not enter the seen-set, which holds exactly the
\* pairs the rows in range ahead of the loop have rated; so a row in range
\* behind an out-of-range row of the same user and movie is retained, and the
\* retained rating of a pair is always that of its first row in range that
\* resolves to the movie
C19_SkippedRowsAreNotSeen ==
    /\ [](pc = "ratings_loop" => seen_user_movie = PairsRatedBefore(i))
    /\ [](pc = "menu" =>
             \A u \in DOMAIN RATINGS_BY_USER : \A m \in DOMAIN RATINGS_BY_USER[u] :
                 /\ RowsRating(u, m) # {}
                 /\ RATINGS_BY_USER[u][m] = RowTenths(Least(RowsRating(u, m))))
    /\ [][SkipKeepsSeenStep]_vars

\* an out-of-range row of a user for a movie, then a row in range of the
\* same user for the same movie, whose rating is the one retained
C19_Witness ==
    /\ pc = "menu"
    /\ \E k, j \in 1..Len(RatingRows) : \E m \in NameKeys(MOVIES_BY_NAME) :
           /\ k < j
           /\ _parse_ratings_line(RatingRows[k]).user_id
              = _parse_ratings_line(RatingRows[j]).user_id
           /\ DisplayEquivalent(_parse_ratings_line(RatingRows[k]).movie_name, m)
           /\ ~RowInRange(_parse_ratings_line(RatingRows[k]))
           /\ j \in RowsRating(_parse_ratings_line(RatingRows[j]).user_id, m)
           /\ Least(RowsRating(_parse_ratings_line(RatingRows[j]).user_id, m)) = j
           /\ RATINGS_BY_USER[_parse_ratings_line(RatingRows[j]).user_id][m]
              = RowTenths(j)

\* the users that the rows of the ratings file last entered name
UsersNamed ==
    {_parse_ratings_line(RatingRows[k]).user_id : k \in 1..Len(RatingRows)}

\* the users that some row of the file gives a rating in range for a movie
\* of the catalog
UsersRetained ==
    {u \in UsersNamed : \E m \in NameKeys(MOVIES_BY_NAME) : RowsRating(u, m) # {}}

\* C20: after a ratings file has loaded, USER_IDS is strictly ascending and
\* holds exactly the users with at least one retained rating: the keys of
\* RATINGS_BY_USER, which are the users that some row rates in range for a
\* movie of the catalog; a user that only skipped rows name is not in it.
C20_UserIdsAscendingOverRetained ==
    pc = "menu" =>
        /\ \A k \in 1..(Len(USER_IDS) - 1) : USER_IDS[k] < USER_IDS[k + 1]
        /\ Elements(USER_IDS) = DOMAIN RATINGS_BY_USER
        /\ Elements(USER_IDS) = UsersRetained
        /\ \A u \in DOMAIN RATINGS_BY_USER : DOMAIN RATINGS_BY_USER[u] # {}

C20_Witness ==
    /\ pc = "menu"
    /\ USER_IDS = <<7, 8>>
    /\ \E k, j \in 1..Len(RatingRows) :
           /\ k < j
           /\ _parse_ratings_line(RatingRows[k]).user_id = 8
           /\ _parse_ratings_line(RatingRows[j]).user_id = 7
    /\ 9 \in UsersNamed \ UsersRetained

\* the keys of GENRES whose set holds the canonical name
GenresHolding(name) == {g \in DOMAIN GENRES : name \in GENRES[g]}

\* C21: after a successful movies load each canonical name is in exactly one
\* set of GENRES, the one under the genre_norm of its record; a later
\* duplicate row with another genre does not put it into a second set.
\* (Stated as the claim has it; the code registers the genre of every
\* accepted row, also of a duplicate.)
C21_EachMovieInItsRecordGenreOnly ==
    pc = "ratings_prompt" =>
        \A k \in 1..Len(MOVIES_BY_NAME) :
            GenresHolding(MOVIES_BY_NAME[k].name) = {MOVIES_BY_NAME[k].genre_norm}

\* the row the movies loop is at, parsed
MovieRowAt == _parse_movies_line(lines[i])

\* the canonical records with a name display-equivalent to that of the row
\* the movies loop is at, and another id
EquivalentOtherId ==
    {k \in 1..Len(MOVIES_BY_NAME) :
        /\ DisplayEquivalent(MovieRowAt.movie_name, MOVIES_BY_NAME[k].name)
        /\ MOVIES_BY_NAME[k].movie_id # MovieRowAt.movie_id}

\* the movies loop is at a row that parses, with an id that is not negative
\* and a name display-equivalent to a canonical name of another id
AtEquivalentOtherIdRow ==
    /\ pc = "movies_loop"
    /\ MovieRowAt.err = "none"
    /\ MovieRowAt.movie_id >= 0
    /\ EquivalentOtherId # {}

\* such a row has the concept key of the canonical name, which concept_to_id
\* binds to the id of the canonical record
ConceptBoundToOtherId ==
    AtEquivalentOtherIdRow =>
        /\ YearReMatches(MovieRowAt.movie_name)
        /\ \A k \in EquivalentOtherId :
              /\ _concept_key(MovieRowAt.movie_name)
                 = _concept_key(MOVIES_BY_NAME[k].name)
              /\ Get(concept_to_id, _concept_key(MOVIES_BY_NAME[k].name), -1)
                 = MOVIES_BY_NAME[k].movie_id

\* the step on such a row aborts the file at the concept check of line 256
ConceptCheckAbortsStep ==
    AtEquivalentOtherIdRow =>
        /\ pc' = "movies_prompt"
        /\ raised'.msg = "same title+year concept appears with different IDs"

\* C22: load_movies_file, which every load of a session enters with the
\* globals cleared, never raises 'same movie name (case-insensitive) with
\* different IDs': a row that reaches the concept check with a name
\* display-equivalent to a canonical name of another id has the concept key
\* of that name, bound to the other id, and the step aborts on 'same
\* title+year concept appears with different IDs'.
C22_DisplayNameConflictUnreachable ==
    /\ [](raised.msg # "same movie name (case-insensitive) with different IDs")
    /\ []ConceptBoundToOtherId
    /\ [][ConceptCheckAbortsStep]_vars

\* C22 witness: 'Co|1|Up (2009)' then 'Dr|2|UP (2009)' aborted at the concept
\* check of the second row
C22_Witness ==
    /\ pc = "movies_prompt"
    /\ raised = LoadError("same title+year concept appears with different IDs", 2)
    /\ Len(MovieRows) >= 2
    /\ RowName(MovieRows[1]) = UpA /\ RowId(MovieRows[1]) = 1
    /\ RowName(MovieRows[2]) = UpB /\ RowId(MovieRows[2]) = 2

\* the (user, value) pairs in the list of movie m in RATINGS_BY_MOVIE
PairsOfMovie(m) == {RATINGS_BY_MOVIE[m][k] : k \in 1..Len(RATINGS_BY_MOVIE[m])}

\* the (user, value) pairs that RATINGS_BY_USER holds for movie m
PairsOfUsers(m) ==
    {<<u, RATINGS_BY_USER[u][m]>> :
        u \in {v \in DOMAIN RATINGS_BY_USER : m \in DOMAIN RATINGS_BY_USER[v]}}

\* the number of entries of the lists of RATINGS_BY_MOVIE over the movies S
RECURSIVE EntriesByMovie(_)
EntriesByMovie(S) ==
    IF S = {} THEN 0
    ELSE Len(RATINGS_BY_MOVIE[CHOOSE m \in S : TRUE])
             + EntriesByMovie(S \ {CHOOSE m \in S : TRUE})

\* the number of entries of the maps of RATINGS_BY_USER over the users S
RECURSIVE EntriesByUser(_)
EntriesByUser(S) ==
    IF S = {} THEN 0
    ELSE Cardinality(DOMAIN RATINGS_BY_USER[CHOOSE u \in S : TRUE])
             + EntriesByUser(S \ {CHOOSE u \in S : TRUE})

\* the movies that RATINGS_BY_USER indexes
MoviesOfUsers == UNION {DOMAIN RATINGS_BY_USER[u] : u \in DOMAIN RATINGS_BY_USER}

\* C23: after every row of a ratings load the two indexes mirror each other:
\* (u, r) is in the list of movie m exactly when the map of user u holds r
\* for m; every indexed movie is a canonical name of the catalog, every
\* retained value lies in [0, 5], every user id is non-negative, and both
\* indexes have the same number of entries.
C23_RatingIndexesMirror ==
    /\ DOMAIN RATINGS_BY_MOVIE = MoviesOfUsers
    /\ DOMAIN RATINGS_BY_MOVIE \subseteq NameKeys(MOVIES_BY_NAME)
    /\ \A m \in DOMAIN RATINGS_BY_MOVIE :
          /\ PairsOfMovie(m) = PairsOfUsers(m)
          /\ \A e \in PairsOfMovie(m) : e[1] >= 0 /\ 0 <= e[2] /\ e[2] <= 50
    /\ \A u \in DOMAIN RATINGS_BY_USER : u >= 0
    /\ EntriesByMovie(DOMAIN RATINGS_BY_MOVIE) = EntriesByUser(DOMAIN RATINGS_BY_USER)

\* C23 witness: the loop has processed two rows and stands before the third,
\* with the boundary value 0 of user 8 and a rating of user 7 retained
C23_Witness ==
    /\ pc = "ratings_loop"
    /\ i = 3
    /\ DOMAIN RATINGS_BY_USER = {7, 8}
    /\ \E m \in DOMAIN RATINGS_BY_USER[8] : RATINGS_BY_USER[8][m] = 0
    /\ EntriesByMovie(DOMAIN RATINGS_BY_MOVIE) = 2

\* C24: once the files are loaded and the statistics computed, every user of
\* USER_IDS has an entry in USER_TOP_GENRE; its genre is a key of GENRES and
\* of GENRE_STATS, the user has rated a movie of the set of that genre, and
\* its count is at least 1 and at most the number of movies the user rated;
\* the lookup of a user at the menu finds the entry and computes nothing.
C24_EveryUserHasTopGenre ==
    pc = "menu" =>
        \A u \in Elements(USER_IDS) :
            /\ u \in DOMAIN USER_TOP_GENRE
            /\ USER_TOP_GENRE[u].genre \in DOMAIN GENRES
            /\ USER_TOP_GENRE[u].genre \in DOMAIN GENRE_STATS
            /\ GENRES[USER_TOP_GENRE[u].genre] \cap DOMAIN RATINGS_BY_USER[u] # {}
            /\ 1 <= USER_TOP_GENRE[u].count
            /\ USER_TOP_GENRE[u].count <= Cardinality(DOMAIN RATINGS_BY_USER[u])
            /\ TopGenreLookup(USER_TOP_GENRE, u, RATINGS_BY_USER, MOVIES_BY_NAME,
                              GENRE_ORIGINAL_CASE) = USER_TOP_GENRE

\* C24 witness: two users at the menu, one with two rated movies in two
\* genres whose top genre holds one of them, after a recommendation was listed
C24_Witness ==
    /\ pc = "menu"
    /\ Len(USER_IDS) = 2
    /\ output.feature = "recommend_movies"
    /\ \E u \in Elements(USER_IDS) :
           /\ Cardinality(DOMAIN RATINGS_BY_USER[u]) = 2
           /\ USER_TOP_GENRE[u].count = 1
    /\ \E u \in Elements(USER_IDS) :
           USER_TOP_GENRE[u].count = Cardinality(DOMAIN RATINGS_BY_USER[u])

====
